---------------------------- MODULE Spec2Model ----------------------------
(***************************************************************************)
(* Company Profile Enrichment Pipeline of RegEU                            *)
(* (backend/app/data_sources/scraper/company_scraper.py) and its two        *)
(* scraping endpoints (backend/app/api/companies.py), followed by the      *)
(* other components of the backend, each under a specification of its own: *)
(* the keyword fallback called repeatedly (SpecFallback), the job          *)
(* scheduler (SpecScheduler), the voice-call token store (SpecVoice), the  *)
(* company profile store (SpecStore), the notification workflow            *)
(* (SpecAgent) and the question-answering endpoint (SpecRag).              *)
(*                                                                         *)
(* Python str values are TLC strings; Python lists are sequences; a dict   *)
(* is a function whose DOMAIN is the set of keys present.  None is         *)
(* modelled where the code can produce it: the classifier's return value   *)
(* is the record [some |-> FALSE, ...] for None and [some |-> TRUE,        *)
(* val |-> l] for a list l.                                                *)
(***************************************************************************)
EXTENDS Integers, Sequences, FiniteSets, TLC

---------------------------------------------------------------------------
(* Python string primitives used by the scraper.                           *)

Min(a, b) == IF a < b THEN a ELSE b

\* s[:n]
Truncate(s, n) == SubSeq(s, 1, Min(Len(s), n))

\* s[i:] (1-based i)
From(s, i) == SubSeq(s, i, Len(s))

\* s[i:i+len(k)] == k
MatchAt(s, i, k) == i + Len(k) - 1 <= Len(s) /\ SubSeq(s, i, i + Len(k) - 1) = k

\* k in s
Contains(s, k) == \E i \in 1..(Len(s) + 1) : MatchAt(s, i, k)

\* s.find(k) + 1, or 0 when k does not occur in s
Find(s, k) ==
    IF Contains(s, k)
    THEN CHOOSE i \in 1..(Len(s) + 1) :
            MatchAt(s, i, k) /\ \A j \in 1..(i - 1) : ~MatchAt(s, j, k)
    ELSE 0

UpperCase == "ABCDEFGHIJKLMNOPQRSTUVWXYZ"
LowerCase == "abcdefghijklmnopqrstuvwxyz"
Digits == "0123456789"
Whitespace == " \n\t"

\* the characters of s, as a set of one-character strings
Chars(s) == {SubSeq(s, i, i) : i \in 1..Len(s)}

UpperChars == Chars(UpperCase)
LowerChars == Chars(LowerCase)
DigitChars == Chars(Digits)
SpaceChars == Chars(Whitespace)

IsUpper(c) == c \in UpperChars
IsLower(c) == c \in LowerChars
IsDigit(c) == c \in DigitChars
IsSpace(c) == c \in SpaceChars
\* \w of the re module (ASCII range)
IsWordChar(c) == IsUpper(c) \/ IsLower(c) \/ IsDigit(c) \/ c = "_"

LowerOf == [c \in UpperChars |-> LET i == Find(UpperCase, c) IN SubSeq(LowerCase, i, i)]

LowerChar(c) == IF IsUpper(c) THEN LowerOf[c] ELSE c

RECURSIVE Lower(_)
\* str.lower()
Lower(s) == IF s = "" THEN "" ELSE LowerChar(SubSeq(s, 1, 1)) \o Lower(Tail(s))

RECURSIVE LStrip(_)
LStrip(s) == IF s # "" /\ IsSpace(SubSeq(s, 1, 1)) THEN LStrip(Tail(s)) ELSE s

RECURSIVE RStrip(_)
RStrip(s) ==
    IF s # "" /\ IsSpace(SubSeq(s, Len(s), Len(s)))
    THEN RStrip(SubSeq(s, 1, Len(s) - 1))
    ELSE s

\* str.strip()
Strip(s) == RStrip(LStrip(s))

RECURSIVE Split(_, _)
\* str.split(sep), sep non-empty
Split(s, sep) ==
    LET i == Find(s, sep)
    IN  IF i = 0
        THEN <<s>>
        ELSE <<SubSeq(s, 1, i - 1)>> \o Split(From(s, i + Len(sep)), sep)

RECURSIVE Join(_, _)
\* sep.join(parts)
Join(sep, parts) ==
    IF parts = <<>> THEN ""
    ELSE IF Len(parts) = 1 THEN parts[1]
    ELSE parts[1] \o sep \o Join(sep, Tail(parts))

Range(seq) == {seq[i] : i \in 1..Len(seq)}

RECURSIVE SetToSeq(_)
\* list(a_set): the elements in one fixed order (CPython's order depends on
\* the hash seed; every formula below compares such lists as sets)
SetToSeq(S) ==
    IF S = {} THEN <<>>
    ELSE LET x == CHOOSE y \in S : TRUE IN <<x>> \o SetToSeq(S \ {x})

---------------------------------------------------------------------------
(* dict primitives                                                         *)

EmptyDict == [k \in {} |-> ""]

\* d.get(k, default)
Get(d, k, default) == IF k \in DOMAIN d THEN d[k] ELSE default

\* d[k] = v
Put(d, k, v) == [x \in DOMAIN d \cup {k} |-> IF x = k THEN v ELSE d[x]]

\* d.update(e)
Update(d, e) == [x \in DOMAIN d \cup DOMAIN e |-> IF x \in DOMAIN e THEN e[x] ELSE d[x]]

---------------------------------------------------------------------------
(* Topic Classifier: _infer_regulatory_topics and its keyword fallback.    *)

\* RegulatoryTopic enum values, in declaration order
available_topics == <<"AI Act", "BaFin", "Cybersecurity", "GDPR", "AMLR", "ESG">>

\* the value None / a list, as returned by the classifier
None == [some |-> FALSE, val |-> <<>>]
Some(l) == [some |-> TRUE, val |-> l]

\* `l if l else None`
ListOrNone(l) == IF l # <<>> THEN Some(l) ELSE None

\* topic_mappings of the fallback: keyword lists per enum value
topic_mappings ==
    [t \in Range(available_topics) |->
        CASE t = "AI Act" ->
                <<"ai", "artificial intelligence", "machine learning", "ml",
                  "algorithm", "neural", "deep learning">>
          [] t = "GDPR" ->
                <<"data", "privacy", "gdpr", "personal", "information",
                  "data protection", "consent">>
          [] t = "Cybersecurity" ->
                <<"security", "cyber", "encryption", "authentication",
                  "firewall", "threat", "vulnerability">>
          [] t = "BaFin" ->
                <<"finance", "banking", "payment", "fintech", "financial",
                  "investment", "trading", "broker">>
          [] t = "AMLR" ->
                <<"anti-money laundering", "aml", "amlr", "money laundering",
                  "financial crime", "compliance", "transaction monitoring",
                  "kyc", "know your customer", "identity verification",
                  "customer verification", "onboarding", "due diligence">>
          [] t = "ESG" ->
                <<"environmental", "social", "governance", "esg",
                  "sustainability", "climate", "green", "carbon", "renewable">>]

\* a variant without the .lower() of line 390
combined_text_NoLower(data) ==
    Join(" ", << Get(data, "description", ""),
                 Get(data, "industry", ""),
                 Join(" ", Get(data, "products_services", <<>>)),
                 Join(" ", Get(data, "technologies_used", <<>>)),
                 Join(" ", Get(data, "keywords", <<>>)) >>)

\* combined_text of the fallback
combined_text(data) ==
    Lower(Join(" ", << Get(data, "description", ""),
                       Get(data, "industry", ""),
                       Join(" ", Get(data, "products_services", <<>>)),
                       Join(" ", Get(data, "technologies_used", <<>>)),
                       Join(" ", Get(data, "keywords", <<>>)) >>))

\* the name of an enum member (RegulatoryTopic.BAFIN.name), not its value
EnumName(t) ==
    CASE t = "AI Act" -> "AI_ACT"
      [] t = "BaFin" -> "BAFIN"
      [] t = "Cybersecurity" -> "CYBERSECURITY"
      [] OTHER -> t

\* a variant that appends topic_enum.name instead of topic_enum.value (line 415)
_infer_regulatory_topics_fallback_EnumNames(data) ==
    LET text == combined_text(data)
        topics == {t \in Range(available_topics) :
                      \E i \in 1..Len(topic_mappings[t]) :
                          Contains(text, topic_mappings[t][i])}
    IN  IF topics # {} THEN Some(SetToSeq({EnumName(t) : t \in topics})) ELSE None

\* lines 381-417
_infer_regulatory_topics_fallback(data) ==
    LET text == combined_text(data)
        topics == {t \in Range(available_topics) :
                      \E i \in 1..Len(topic_mappings[t]) :
                          Contains(text, topic_mappings[t][i])}
    IN  IF topics # {} THEN Some(SetToSeq(topics)) ELSE None

\* text_fields of _infer_regulatory_topics (the labelled f-strings)
text_fields(data) ==
    << "Description: " \o Get(data, "description", ""),
       "Industry: " \o Get(data, "industry", ""),
       "Products/Services: " \o Join(", ", Get(data, "products_services", <<>>)),
       "Technologies: " \o Join(", ", Get(data, "technologies_used", <<>>)),
       "Keywords: " \o Join(", ", Get(data, "keywords", <<>>)) >>

\* field.split(': ')[1] is truthy
FieldHasText(field) == Split(field, ": ")[2] # ""

company_info(data) == Join("\n", SelectSeq(text_fields(data), FieldHasText))

\* a variant without the vocabulary filter of line 372
ParseResponse_NoFilter(content) ==
    LET result == Strip(content)
        suggested == Split(result, ",")
        suggested_topics == [i \in 1..Len(suggested) |-> Strip(suggested[i])]
    IN  IF Lower(result) = "none" THEN None ELSE ListOrNone(suggested_topics)

\* response.choices[0].message.content parsed into topics (lines 365-375)
ParseResponse(content) ==
    LET result == Strip(content)
        suggested == Split(result, ",")
        suggested_topics == [i \in 1..Len(suggested) |-> Strip(suggested[i])]
        InVocabulary(t) == t \in Range(available_topics)
        valid_topics == SelectSeq(suggested_topics, InVocabulary)
    IN  IF Lower(result) = "none" THEN None ELSE ListOrNone(valid_topics)

\* What the environment does to one classification attempt:
\*   no_api_key     settings.get_openai_api_key() is falsy
\*   request_error  the key lookup, the client or the completion request raises
\*   no_content     the response carries no message content (.strip() on None raises)
\*   content        the response text
LLMKinds == {"no_api_key", "request_error", "no_content", "content"}

\* A call of the classifier either returns value or raises (str(e) = error);
\* did lists, in order, what the call did on its way: "request" for the
\* completion request of line 354, "fallback" for a call of the keyword match
Return(value) == [raised |-> FALSE, error |-> "", value |-> value, did |-> <<>>]
Raise(error) == [raised |-> TRUE, error |-> error, value |-> None, did |-> <<>>]

\* the call r after having done what
After(what, r) == [r EXCEPT !.did = <<what>> \o @]

\* str(e) of what the try block raises
LLMError(llm) ==
    IF llm.kind = "request_error"
    THEN "Connection error."
    ELSE "'NoneType' object has no attribute 'strip'"

\* the try block of _infer_regulatory_topics (lines 317-375)
TryPrimary(data, llm) ==
    CASE llm.kind = "no_api_key" ->
            After("fallback", Return(_infer_regulatory_topics_fallback(data)))
      [] llm.kind \in {"request_error", "no_content"} ->
            After("request", Raise(LLMError(llm)))
      [] OTHER -> After("request", Return(ParseResponse(llm.content)))

\* `if not company_info.strip()` is false: the classifier goes on to the LLM tier
HasCompanyInfo(data) == Strip(company_info(data)) # ""

\* a variant without the early return of lines 308-310
_infer_regulatory_topics_NoEmptyCheck(data, llm) ==
    LET r == TryPrimary(data, llm)
    IN  IF r.raised
        THEN [Return(_infer_regulatory_topics_fallback(data))
                  EXCEPT !.did = r.did \o <<"fallback">>]
        ELSE r

\* a variant without the except clause of lines 377-379
_infer_regulatory_topics_NoExcept(data, llm) ==
    IF ~HasCompanyInfo(data)
    THEN Return(None)
    ELSE TryPrimary(data, llm)

\* lines 298-379; `except Exception` catches whatever the try block raises
_infer_regulatory_topics(data, llm) ==
    IF ~HasCompanyInfo(data)
    THEN Return(None)
    ELSE LET r == TryPrimary(data, llm)
         IN  IF r.raised
             THEN [Return(_infer_regulatory_topics_fallback(data))
                       EXCEPT !.did = r.did \o <<"fallback">>]
             ELSE r

---------------------------------------------------------------------------
(* Encyclopedia Extractor: _scrape_wikipedia.                              *)
(*                                                                         *)
(* A fetched page is modelled by what BeautifulSoup finds in it:           *)
(*   infobox     <<>> when soup.find('table', class_='infobox') is None,   *)
(*               else <<rows>>; a row is [th |-> <<>> or <<header text>>,  *)
(*               td |-> <<>> or <<cell text>>] (texts after get_text)      *)
(*   first_para  <<>> when no paragraph is found, else <<its text>>        *)
(*   category_links  the texts of the /wiki/Category: links                *)

DescriptionLimit == 1000
ProductsLimit == 10
CategoriesLimit == 15

\* the length of the match of \[\d+\] at the head of s, or 0
CitationLen(s) ==
    IF s # "" /\ SubSeq(s, 1, 1) = "["
    THEN LET closes == {j \in 3..Len(s) :
                          /\ SubSeq(s, j, j) = "]"
                          /\ \A k \in 2..(j - 1) : IsDigit(SubSeq(s, k, k))}
         IN  IF closes = {} THEN 0 ELSE CHOOSE j \in closes : TRUE
    ELSE 0

RECURSIVE StripCitations(_)
\* re.sub(r'\[\d+\]', '', s)
StripCitations(s) ==
    IF s = "" THEN ""
    ELSE LET n == CitationLen(s)
         IN  IF n > 0
             THEN StripCitations(From(s, n + 1))
             ELSE SubSeq(s, 1, 1) \o StripCitations(Tail(s))

\* \b(19|20)\d{2}\b matches at position i of s
YearAt(s, i) ==
    /\ i + 3 <= Len(s)
    /\ SubSeq(s, i, i + 1) \in {"19", "20"}
    /\ IsDigit(SubSeq(s, i + 2, i + 2))
    /\ IsDigit(SubSeq(s, i + 3, i + 3))
    /\ (i = 1 \/ ~IsWordChar(SubSeq(s, i - 1, i - 1)))
    /\ (i + 3 = Len(s) \/ ~IsWordChar(SubSeq(s, i + 4, i + 4)))

DigitValue(c) == Find(Digits, c) - 1

\* int() of a four-digit token
ParseYear(t) ==
    1000 * DigitValue(SubSeq(t, 1, 1)) + 100 * DigitValue(SubSeq(t, 2, 2))
        + 10 * DigitValue(SubSeq(t, 3, 3)) + DigitValue(SubSeq(t, 4, 4))

\* re.search(r'\b(19|20)\d{2}\b', value): <<>> or <<the year>>
SearchYear(value) ==
    LET hits == {i \in 1..Len(value) : YearAt(value, i)}
    IN  IF hits = {} THEN <<>>
        ELSE LET i == CHOOSE h \in hits : \A g \in hits : h <= g
             IN  <<ParseYear(SubSeq(value, i, i + 3))>>

\* [p.strip() for p in value.split(',')][:10]
ProductsOf(value) ==
    LET parts == Split(value, ",")
        products == [i \in 1..Len(parts) |-> Strip(parts[i])]
    IN  Truncate(products, ProductsLimit)

\* the body of the loop over the infobox rows (lines 122-142)
InfoboxRow(data, row) ==
    IF row.th = <<>> \/ row.td = <<>> THEN data
    ELSE LET header_text == Lower(row.th[1])
             value == row.td[1]
         IN  IF Contains(header_text, "industry") \/ Contains(header_text, "type")
             THEN Put(data, "industry", value)
             ELSE IF Contains(header_text, "founded")
             THEN LET year_match == SearchYear(value)
                  IN  IF year_match # <<>>
                      THEN Put(data, "founded_year", year_match[1])
                      ELSE data
             ELSE IF Contains(header_text, "headquarters") \/ Contains(header_text, "hq")
             THEN Put(data, "headquarters", value)
             ELSE IF Contains(header_text, "employee")
             THEN Put(data, "employee_count", value)
             ELSE IF Contains(header_text, "product") \/ Contains(header_text, "service")
             THEN Put(data, "products_services", ProductsOf(value))
             ELSE data

RECURSIVE InfoboxRows(_, _)
InfoboxRows(data, rows) ==
    IF rows = <<>> THEN data
    ELSE InfoboxRows(InfoboxRow(data, Head(rows)), Tail(rows))

\* the fields _scrape_wikipedia collects before it classifies (lines 115-159)
WikipediaFields(page) ==
    LET d1 == IF page.infobox # <<>>
              THEN InfoboxRows(EmptyDict, page.infobox[1])
              ELSE EmptyDict
        d2 == IF page.first_para # <<>>
              THEN Put(d1, "description",
                       Truncate(StripCitations(page.first_para[1]), DescriptionLimit))
              ELSE d1
        categories == Truncate(page.category_links, CategoriesLimit)
    IN  IF categories # <<>> THEN Put(d2, "categories", categories) ELSE d2

\* An extraction call either raises e (raised, str(e) = error) or returns
\* the dict data.
Raised(error) == [raised |-> TRUE, error |-> error, data |-> EmptyDict, did |-> <<>>]
Returned(data) == [raised |-> FALSE, error |-> "", data |-> data, did |-> <<>>]

\* lines 161-164: the classifier's value is stored; what it raises propagates
WithTopics(data, c) ==
    [IF c.raised THEN Raised(c.error) ELSE Returned(Put(data, "regulatory_topics", c.value))
        EXCEPT !.did = c.did]

\* a variant without the `if infobox:` guard of line 118: find_all on None
_scrape_wikipedia_RequireInfobox(fetch, llm) ==
    IF ~fetch.ok
    THEN Raised(fetch.error)
    ELSE IF fetch.page.infobox = <<>>
    THEN Raised("'NoneType' object has no attribute 'find_all'")
    ELSE LET data == WikipediaFields(fetch.page)
         IN  WithTopics(data, _infer_regulatory_topics(data, llm))

\* _scrape_wikipedia; fetch is what requests.get / raise_for_status do:
\* [ok |-> FALSE, error |-> str(e)] or [ok |-> TRUE, page |-> the parsed page]
_scrape_wikipedia(fetch, llm) ==
    IF ~fetch.ok
    THEN Raised(fetch.error)
    ELSE LET data == WikipediaFields(fetch.page)
         IN  WithTopics(data, _infer_regulatory_topics(data, llm))

---------------------------------------------------------------------------
(* Website Extractor, static strategy: _scrape_website_simple.             *)
(*                                                                         *)
(* A fetched page is modelled by what BeautifulSoup finds in it:           *)
(*   meta_content  <<>> when there is no description meta tag or it has    *)
(*                 no content attribute, else <<content>>                  *)
(*   sections      the texts of the section/div elements whose class       *)
(*                 matches about|company|products|services|technology      *)
(*   page_text     soup.get_text()                                         *)

SectionTextLimit == 500
WordsPerSection == 5
KeywordsLimit == 20

tech_keywords ==
    <<"AI", "ML", "Cloud", "AWS", "Azure", "React", "Python",
      "Kubernetes", "Docker", "API", "SaaS", "IoT", "Blockchain">>

RECURSIVE LowerRun(_, _)
\* the number of consecutive [a-z] characters of s from position i
LowerRun(s, i) ==
    IF i <= Len(s) /\ IsLower(SubSeq(s, i, i)) THEN 1 + LowerRun(s, i + 1) ELSE 0

\* the length of the match of \b[A-Z][a-z]{3,}\b at position i of s, or 0
WordAt(s, i) ==
    LET n == LowerRun(s, i + 1)
    IN  IF /\ IsUpper(SubSeq(s, i, i))
           /\ (i = 1 \/ ~IsWordChar(SubSeq(s, i - 1, i - 1)))
           /\ n >= 3
           /\ (i + n = Len(s) \/ ~IsWordChar(SubSeq(s, i + n + 1, i + n + 1)))
        THEN n + 1
        ELSE 0

RECURSIVE FindWords(_, _)
\* re.findall(r'\b[A-Z][a-z]{3,}\b', s), scanning from position i
FindWords(s, i) ==
    IF i > Len(s) THEN <<>>
    ELSE LET n == WordAt(s, i)
         IN  IF n > 0
             THEN <<SubSeq(s, i, i + n - 1)>> \o FindWords(s, i + n)
             ELSE FindWords(s, i + 1)

RECURSIVE SectionKeywords(_)
\* the keywords list after the loop over the sections (lines 191-198)
SectionKeywords(sections) ==
    IF sections = <<>> THEN <<>>
    ELSE LET text == Truncate(Head(sections), SectionTextLimit)
             words == FindWords(text, 1)
         IN  Truncate(words, WordsPerSection) \o SectionKeywords(Tail(sections))

\* the fields _scrape_website_simple collects before it classifies (lines 185-210)
WebsiteFields(page) ==
    LET d1 == IF page.meta_content # <<>> /\ page.meta_content[1] # ""
              THEN Put(EmptyDict, "description",
                       Truncate(page.meta_content[1], DescriptionLimit))
              ELSE EmptyDict
        keywords == SectionKeywords(page.sections)
        d2 == IF keywords # <<>>
              THEN Put(d1, "keywords",
                       Truncate(SetToSeq(Range(keywords)), KeywordsLimit))
              ELSE d1
        InPage(tech) == Contains(page.page_text, tech)
        found_tech == SelectSeq(tech_keywords, InPage)
    IN  IF found_tech # <<>> THEN Put(d2, "technologies_used", found_tech) ELSE d2

\* _scrape_website_simple; the except clause of lines 215-217 re-raises
_scrape_website_simple(fetch, llm) ==
    IF ~fetch.ok
    THEN Raised(fetch.error)
    ELSE LET data == WebsiteFields(fetch.page)
         IN  WithTopics(data, _infer_regulatory_topics(data, llm))

---------------------------------------------------------------------------
(* Profile Assembler: CompanyScraper.scrape_company.                       *)

VARIABLES
    company_name,    \* argument of scrape_company
    website_url,     \* argument: None, or a str (possibly empty)
    wikipedia_url,   \* argument: None, or a str (possibly empty)
    profile_data,    \* the local dict of scrape_company
    pc,              \* position in scrape_company
    wiki_attempt,    \* what the Wikipedia block did (history)
    web_attempt,     \* what the website block did (history)
    profile,         \* the CompanyProfile returned (keys absent are None)
    api_key          \* whether settings.get_openai_api_key() is truthy

\* a request to the scraping endpoints of api/companies.py
VARIABLES
    endpoint,        \* the route called
    request,         \* the request body as the client sent it
    api_pc,          \* position in the handler
    url_index,       \* scrape_companies: index of the next url of request.urls
    profiles,        \* scrape_companies: the local list profiles
    errors,          \* scrape_companies: the local list errors
    response,        \* the HTTP response
    extractions      \* number of extractor calls made for the request (history)

\* a call of _scrape_website, the rendered strategy
VARIABLES
    render_pc,       \* position in _scrape_website
    browser,         \* "none", "open" (launched) or "closed"
    playwright,      \* the async_playwright() context: "none", "started", "stopped"
    scraped,         \* the local dict data
    in_flight,       \* the exception that is propagating, if any
    outcome          \* what the call returned or raised

scraper_vars == <<company_name, website_url, wikipedia_url, profile_data, pc,
                  wiki_attempt, web_attempt, profile>>
api_vars == <<endpoint, request, api_pc, url_index, profiles, errors, response,
              extractions>>
render_vars == <<render_pc, browser, playwright, scraped, in_flight, outcome>>


\* Python truthiness of the value stored under key k
Truthy(k, v) ==
    CASE k \in {"regulatory_topics", "website_url", "wikipedia_url"} ->
            v.some /\ Len(v.val) > 0
      [] k = "founded_year" -> v # 0
      [] k \in {"products_services", "technologies_used", "keywords", "categories"} ->
            v # <<>>
      [] OTHER -> v # ""

\* bool(d.get(k))
GetTruthy(d, k) == k \in DOMAIN d /\ Truthy(k, d[k])

\* lines 56-61
InitialProfileData(name, website, wikipedia) ==
    [company_name |-> name, website_url |-> website, wikipedia_url |-> wikipedia,
     scrape_status |-> "pending"]

\* the try/except of lines 65-71
WikipediaBlock(pd, r) ==
    IF r.raised
    THEN Put(pd, "scrape_error", r.error)
    ELSE Put(Update(pd, r.data), "source_type", "wikipedia")

\* a variant without `not profile_data.get(key)`: the website overwrites
MergeWebsite_Overwrite(pd, website_data) ==
    LET filled == {k \in DOMAIN website_data : Truthy(k, website_data[k])}
    IN  [k \in DOMAIN pd \cup filled |->
            IF k \in filled THEN website_data[k] ELSE pd[k]]

\* a variant without the `value and` test: empty website values are stored
MergeWebsite_NoValueCheck(pd, website_data) ==
    LET filled == {k \in DOMAIN website_data : ~GetTruthy(pd, k)}
    IN  [k \in DOMAIN pd \cup filled |->
            IF k \in filled THEN website_data[k] ELSE pd[k]]

\* the merge loop of lines 78-80
MergeWebsite(pd, website_data) ==
    LET filled == {k \in DOMAIN website_data :
                      Truthy(k, website_data[k]) /\ ~GetTruthy(pd, k)}
    IN  [k \in DOMAIN pd \cup filled |->
            IF k \in filled THEN website_data[k] ELSE pd[k]]

\* a variant that goes by the URLs supplied instead of by what succeeded
SourceTypeAfterWebsite_BothSupplied(pd) ==
    IF GetTruthy(pd, "wikipedia_url") THEN "combined" ELSE "website"

\* lines 82-85
SourceTypeAfterWebsite(pd) ==
    IF "source_type" \in DOMAIN pd /\ pd["source_type"] = "wikipedia"
    THEN "combined"
    ELSE "website"

\* lines 86-89
OnWebsiteError(pd, error) ==
    IF ~GetTruthy(pd, "scrape_error")
    THEN Put(pd, "scrape_error", error)
    ELSE pd

\* a variant that merges with profile_data.update(website_data), as line 67
\* does for Wikipedia
WebsiteBlock_Update(pd, r) ==
    IF r.raised
    THEN OnWebsiteError(pd, r.error)
    ELSE LET merged == Update(pd, r.data)
         IN  Put(merged, "source_type", SourceTypeAfterWebsite(merged))

\* the try/except of lines 75-89
WebsiteBlock(pd, r) ==
    IF r.raised
    THEN OnWebsiteError(pd, r.error)
    ELSE LET merged == MergeWebsite(pd, r.data)
         IN  Put(merged, "source_type", SourceTypeAfterWebsite(merged))

\* a variant without the else branch of line 94: the status stays as it was
ScrapeStatus_NoElse(pd) ==
    IF GetTruthy(pd, "description") \/ GetTruthy(pd, "industry")
    THEN IF ~GetTruthy(pd, "scrape_error") THEN "success" ELSE "partial"
    ELSE pd["scrape_status"]

\* a variant that tests the keys' presence instead of their truthiness
ScrapeStatus_KeyPresence(pd) ==
    IF "description" \in DOMAIN pd \/ "industry" \in DOMAIN pd
    THEN IF ~GetTruthy(pd, "scrape_error") THEN "success" ELSE "partial"
    ELSE "failed"

\* lines 92-95
ScrapeStatus(pd) ==
    IF GetTruthy(pd, "description") \/ GetTruthy(pd, "industry")
    THEN IF ~GetTruthy(pd, "scrape_error") THEN "success" ELSE "partial"
    ELSE "failed"

\* the fields of the CompanyProfile model, by annotated type
StrFields ==
    {"id", "created_at", "updated_at", "user_id", "company_name", "website_url",
     "wikipedia_url", "industry", "sector", "description", "headquarters",
     "employee_count", "company_size", "business_model", "source_type",
     "last_scraped_at", "scrape_status", "scrape_error", "raw_data"}
ListFields ==
    {"products_services", "technologies_used", "regulatory_topics",
     "relevant_legislative_areas", "compliance_requirements", "target_markets",
     "geographic_presence", "keywords", "categories"}
IntFields == {"founded_year"}
ProfileFields == StrFields \cup ListFields \cup IntFields

\* None as the value of an Optional[str] argument or field
NoneStr == [some |-> FALSE, val |-> ""]

\* the default None of field k
FieldDefault(k) ==
    [some |-> FALSE,
     val |-> IF k \in ListFields THEN <<>> ELSE IF k \in IntFields THEN 0 ELSE ""]

\* dict keys whose values are already Optional (may hold None)
OptionalKeys == {"regulatory_topics", "website_url", "wikipedia_url"}

\* CompanyProfile(**profile_data): every field of the model, the keys given
\* keeping their values and every other field defaulting to None
CompanyProfile(pd) ==
    [k \in ProfileFields |->
        IF k \in DOMAIN pd
        THEN IF k \in OptionalKeys THEN pd[k] ELSE Some(pd[k])
        ELSE FieldDefault(k)]

\* no profile returned yet
NoProfile == [k \in ProfileFields |-> FieldDefault(k)]

---------------------------------------------------------------------------
(* The environment: what callers pass and what the network returns.        *)

CompanyNames == {"Acme"}

Urls == {NoneStr, Some(""), Some("https://acme.example/page")}

\* exceptions requests/bs4 can raise inside an extractor; str(e) is msg
WikipediaErrors ==
    { [cls |-> "HTTPError", msg |-> "404 Client Error: Not Found for url: wikipedia"],
      [cls |-> "MemoryError", msg |-> ""] }

WebsiteErrors ==
    { [cls |-> "ConnectionError", msg |-> "Connection refused: website"],
      [cls |-> "MemoryError", msg |-> ""] }

Row(th, td) == [th |-> th, td |-> td]

WikipediaPages ==
    { \* no expected markup at all
      [infobox |-> <<>>, first_para |-> <<>>, category_links |-> <<>>],
      \* a first paragraph that is only a citation marker
      [infobox |-> <<>>, first_para |-> <<"[1]">>, category_links |-> <<>>],
      \* category links only
      [infobox |-> <<>>, first_para |-> <<>>, category_links |-> <<"Companies of Germany">>],
      \* a payments company with a full infobox
      [infobox |-> << << Row(<<"Industry">>, <<"Payments">>),
                         Row(<<"Founded">>, <<"Founded in 1998, relocated in 2010">>),
                         Row(<<"Headquarters">>, <<"Berlin">>),
                         Row(<<"Number of employees">>, <<"120">>),
                         Row(<<"Products">>, <<"Cards, Terminals">>),
                         Row(<<"Website">>, <<>>) >> >>,
       first_para |-> <<"We process card payments for merchants.[2]">>,
       category_links |-> <<"Payment service providers">>],
       \* an infobox whose Type cell is empty, no paragraph
      [infobox |-> << << Row(<<"Type">>, <<"">>) >> >>,
       first_para |-> <<>>, category_links |-> <<>>],
      \* a description only
      [infobox |-> <<>>, first_para |-> <<"Acme builds solar parks.">>,
       category_links |-> <<>>],
      \* a description that starts with a colon and a space
      [infobox |-> <<>>, first_para |-> <<": data privacy">>, category_links |-> <<>>],
      \* an industry and a description, nothing else
      [infobox |-> << << Row(<<"Industry">>, <<"Payments">>) >> >>,
       first_para |-> <<"We process card payments for merchants.">>,
       category_links |-> <<>>] }

WebsitePages ==
    { \* no expected markup at all
      [meta_content |-> <<>>, sections |-> <<>>, page_text |-> ""],
      \* an empty meta description
      [meta_content |-> <<"">>, sections |-> <<>>, page_text |-> "Welcome"],
      \* a meta description and technologies
      [meta_content |-> <<"Secure payment platform.">>, sections |-> <<>>,
       page_text |-> "Secure payment platform on AWS"],
      \* keywords and technologies, no description
      [meta_content |-> <<>>, sections |-> <<"About Acme Robotics">>,
       page_text |-> "About Acme Robotics AI"],
      \* a description only
      [meta_content |-> <<"Renewable energy for homes.">>, sections |-> <<>>,
       page_text |-> "Renewable energy for homes."],
      \* a description whose only trigger keyword is compliance
      [meta_content |-> <<"Compliance software for banks.">>, sections |-> <<>>,
       page_text |-> "Compliance software for banks."] }

LLMContents ==
    {"GDPR", "BaFin, GDPR, AMLR", "none", " AI Act ,Unknown, gdpr", "Unknown"}

\* what a classification attempt can meet, given the configuration
LLMOutcomes(key) ==
    IF ~key
    THEN { [kind |-> "no_api_key", content |-> ""] }
    ELSE { [kind |-> k, content |-> ""] : k \in {"request_error", "no_content"} }
            \cup { [kind |-> "content", content |-> c] : c \in LLMContents }

\* the outcomes of requests.get + raise_for_status + parsing
Fetched(page) == [ok |-> TRUE, error |-> "", page |-> page]
FetchFailed(e, page) == [ok |-> FALSE, error |-> e.msg, page |-> page]

NoWikipediaPage == [infobox |-> <<>>, first_para |-> <<>>, category_links |-> <<>>]
NoWebsitePage == [meta_content |-> <<>>, sections |-> <<>>, page_text |-> ""]

NoLLM == [kind |-> "no_api_key", content |-> ""]

\* an extraction attempt that has not happened (yet): state is "pending",
\* "skipped" (no URL), "ok" (the extractor returned) or "raised"
\* fields is what the extractor had collected when it called the classifier
NoAttempt ==
    [state |-> "pending", fetched |-> FALSE, fields |-> EmptyDict, llm |-> NoLLM,
     error |-> "", data |-> EmptyDict, did |-> <<>>]

Attempt(fetch, fields, llm, r) ==
    [state |-> IF r.raised THEN "raised" ELSE "ok", fetched |-> fetch.ok,
     fields |-> IF fetch.ok THEN fields ELSE EmptyDict, llm |-> llm,
     error |-> r.error, data |-> r.data, did |-> r.did]

\* an exception value, or no exception
NoException == [some |-> FALSE, cls |-> "", msg |-> ""]
Exception(cls, msg) == [some |-> TRUE, cls |-> cls, msg |-> msg]

\* no value returned and nothing raised (yet)
NoOutcome == [state |-> "running", error |-> NoException, data |-> EmptyDict]

\* no request body field / no response
NoUrls == [some |-> FALSE, val |-> <<>>]
NoRequest ==
    [company_name |-> NoneStr, website_url |-> NoneStr, wikipedia_url |-> NoneStr,
     user_id |-> NoneStr, urls |-> NoUrls]
NoResponse ==
    [code |-> 0, success |-> FALSE, data |-> <<>>, errors |-> NoUrls]

\* no request is being handled / scrape_company is not running on its own /
\* _scrape_website is not running
ApiIdle ==
    /\ endpoint = ""
    /\ request = NoRequest
    /\ api_pc = "idle"
    /\ url_index = 1
    /\ profiles = <<>>
    /\ errors = <<>>
    /\ response = NoResponse
    /\ extractions = 0

ScraperIdle ==
    /\ company_name = ""
    /\ website_url = NoneStr
    /\ wikipedia_url = NoneStr
    /\ profile_data = EmptyDict
    /\ pc = "idle"
    /\ wiki_attempt = NoAttempt
    /\ web_attempt = NoAttempt
    /\ profile = NoProfile

RenderIdle ==
    /\ render_pc = "idle"
    /\ browser = "none"
    /\ playwright = "none"
    /\ scraped = EmptyDict
    /\ in_flight = NoException
    /\ outcome = NoOutcome

\* The other components of the backend, each with its own variables.

\* repeated calls of the keyword fallback on one dict
VARIABLES
    fb_data,           \* the dict passed to _infer_regulatory_topics_fallback
    fb_given,          \* the dict as it was when first passed (history)
    fb_returns         \* what the calls returned, in order (history)

\* the job scheduler (JobScheduler and its loop threads)
VARIABLES
    sched_running,     \* self.running
    sched_thread,      \* self.thread: 0 for None, else an index into loop_threads
    loop_threads,      \* every thread start() has created: [pos, todo]
    sched_jobs,        \* the jobs registered with the schedule
    executed,          \* the job runs so far: [job, thread, failed] (history)
    caller_pc          \* where the caller of start() and stop() is

\* the voice-call token store (voice_calls.py)
VARIABLES
    voice_call_tokens, \* the module-level dict: token -> VoiceCallToken
    clock,             \* what datetime.utcnow() reads, in minutes
    issued,            \* the tokens generate_secure_token has returned (history)
    invalidated,       \* the tokens a DELETE has removed (history)
    served,            \* the number of requests answered (history)
    retrieved,         \* the tokens served with success, in order (history)
    vc_response        \* the answer to the latest request

\* the company profile store (the database endpoints of companies.py)
VARIABLES
    supabase,          \* whether the Supabase client is configured
    db_tables,         \* the database: table name -> company_name -> row
    saved,             \* what save reported as saved and no delete removed since (history)
    store_requests,    \* the number of requests answered (history)
    store_response     \* the answer to the latest request

\* the notification workflow (langgraph/agent.py)
VARIABLES
    agent_pc,          \* the node to run next, "END", or "raised"
    wf_entries,        \* state["entries"]
    wf_classified,     \* state["classified"]
    wf_notifications,  \* state["notifications"]
    wf_path,           \* the nodes that have run, in order (history)
    llm_reply,         \* the content of the LLM response, if one came (history)
    posts,             \* the webhook posts made: [payload, delivered] (history)
    agent_error        \* the exception that ended the run, if any

\* the question-answering endpoint (rag.py and rag_service.py)
VARIABLES
    rag_pc,            \* where query_rag is
    rag_query,         \* request.query
    rag_calls,         \* the calls made to the embedding, search and chat services (history)
    rag_errors,        \* the stages at which something raised (history)
    rag_context,       \* context as retrieve_relevant_chunks returned it
    rag_docs,          \* source_docs as retrieve_relevant_chunks returned them
    rag_answer,        \* what generate_answer returned
    rag_response       \* the RAGResponse returned, once there is one

fallback_vars == <<fb_data, fb_given, fb_returns>>

\* repeated calls of the keyword fallback on one dict: nothing is going on
FallbackIdle ==
    /\ fb_data = EmptyDict
    /\ fb_given = EmptyDict
    /\ fb_returns = <<>>

scheduler_vars == <<sched_running, sched_thread, loop_threads, sched_jobs, executed, caller_pc>>

\* the job scheduler (JobScheduler and its loop threads): nothing is going on
SchedulerIdle ==
    /\ sched_running = FALSE
    /\ sched_thread = 0
    /\ loop_threads = <<>>
    /\ sched_jobs = {}
    /\ executed = <<>>
    /\ caller_pc = "idle"

voice_vars == <<voice_call_tokens, clock, issued, invalidated, served, retrieved, vc_response>>

\* the voice-call token store (voice_calls.py): nothing is going on
VoiceIdle ==
    /\ voice_call_tokens = EmptyDict
    /\ clock = 0
    /\ issued = {}
    /\ invalidated = {}
    /\ served = 0
    /\ retrieved = <<>>
    /\ vc_response = [op |-> "none"]

store_vars == <<supabase, db_tables, saved, store_requests, store_response>>

\* the company profile store (the database endpoints of companies.py): nothing is going on
StoreIdle ==
    /\ supabase = FALSE
    /\ db_tables = EmptyDict
    /\ saved = EmptyDict
    /\ store_requests = 0
    /\ store_response = [op |-> "none"]

agent_vars == <<agent_pc, wf_entries, wf_classified, wf_notifications, wf_path, llm_reply, posts, agent_error>>

\* the notification workflow (langgraph/agent.py): nothing is going on
AgentIdle ==
    /\ agent_pc = "END"
    /\ wf_entries = <<>>
    /\ wf_classified = <<>>
    /\ wf_notifications = <<>>
    /\ wf_path = <<>>
    /\ llm_reply = NoneStr
    /\ posts = <<>>
    /\ agent_error = [node |-> "", cls |-> ""]

rag_vars == <<rag_pc, rag_query, rag_calls, rag_errors, rag_context, rag_docs, rag_answer, rag_response>>

\* the question-answering endpoint (rag.py and rag_service.py): nothing is going on
RagIdle ==
    /\ rag_pc = "idle"
    /\ rag_query = ""
    /\ rag_calls = <<>>
    /\ rag_errors = <<>>
    /\ rag_context = ""
    /\ rag_docs = <<>>
    /\ rag_answer = NoneStr
    /\ rag_response = [code |-> 0]

other_vars == <<fallback_vars, scheduler_vars, voice_vars, store_vars, agent_vars, rag_vars>>

OthersIdle ==
    /\ FallbackIdle
    /\ SchedulerIdle
    /\ VoiceIdle
    /\ StoreIdle
    /\ AgentIdle
    /\ RagIdle

\* the scraping pipeline is not running
pipeline_vars == <<scraper_vars, api_vars, render_vars, api_key>>

PipelineIdle ==
    /\ ScraperIdle
    /\ ApiIdle
    /\ RenderIdle
    /\ api_key = FALSE

\* everything outside repeated calls of the keyword fallback on one dict
outside_fallback ==
    <<pipeline_vars, scheduler_vars, voice_vars, store_vars, agent_vars, rag_vars>>

OutsideIdle_fallback ==
    /\ PipelineIdle
    /\ SchedulerIdle
    /\ VoiceIdle
    /\ StoreIdle
    /\ AgentIdle
    /\ RagIdle

\* everything outside the job scheduler (JobScheduler and its loop threads)
outside_scheduler ==
    <<pipeline_vars, fallback_vars, voice_vars, store_vars, agent_vars, rag_vars>>

OutsideIdle_scheduler ==
    /\ PipelineIdle
    /\ FallbackIdle
    /\ VoiceIdle
    /\ StoreIdle
    /\ AgentIdle
    /\ RagIdle

\* everything outside the voice-call token store (voice_calls.py)
outside_voice ==
    <<pipeline_vars, fallback_vars, scheduler_vars, store_vars, agent_vars, rag_vars>>

OutsideIdle_voice ==
    /\ PipelineIdle
    /\ FallbackIdle
    /\ SchedulerIdle
    /\ StoreIdle
    /\ AgentIdle
    /\ RagIdle

\* everything outside the company profile store (the database endpoints of companies.py)
outside_store ==
    <<pipeline_vars, fallback_vars, scheduler_vars, voice_vars, agent_vars, rag_vars>>

OutsideIdle_store ==
    /\ PipelineIdle
    /\ FallbackIdle
    /\ SchedulerIdle
    /\ VoiceIdle
    /\ AgentIdle
    /\ RagIdle

\* everything outside the notification workflow (langgraph/agent.py)
outside_agent ==
    <<pipeline_vars, fallback_vars, scheduler_vars, voice_vars, store_vars, rag_vars>>

OutsideIdle_agent ==
    /\ PipelineIdle
    /\ FallbackIdle
    /\ SchedulerIdle
    /\ VoiceIdle
    /\ StoreIdle
    /\ RagIdle

\* everything outside the question-answering endpoint (rag.py and rag_service.py)
outside_rag ==
    <<pipeline_vars, fallback_vars, scheduler_vars, voice_vars, store_vars, agent_vars>>

OutsideIdle_rag ==
    /\ PipelineIdle
    /\ FallbackIdle
    /\ SchedulerIdle
    /\ VoiceIdle
    /\ StoreIdle
    /\ AgentIdle

vars == <<scraper_vars, api_vars, render_vars, api_key, other_vars>>

\* (end of the declarations of the other components)

---------------------------------------------------------------------------
(* scrape_company as a state machine.                                      *)

Init ==
    /\ company_name \in CompanyNames
    /\ website_url \in Urls
    /\ wikipedia_url \in Urls
    /\ profile_data = InitialProfileData(company_name, website_url, wikipedia_url)
    /\ pc = "wikipedia"
    /\ wiki_attempt = NoAttempt
    /\ web_attempt = NoAttempt
    /\ profile = NoProfile
    /\ api_key \in BOOLEAN
    /\ ApiIdle
    /\ RenderIdle
    /\ OthersIdle

\* line 64: `if wikipedia_url:` is false
WikipediaSkipped ==
    /\ pc = "wikipedia"
    /\ ~Truthy("wikipedia_url", wikipedia_url)
    /\ wiki_attempt' = [NoAttempt EXCEPT !.state = "skipped"]
    /\ pc' = "website"
    /\ UNCHANGED <<other_vars, api_vars, render_vars, api_key, company_name, website_url, wikipedia_url, profile_data,
                   web_attempt, profile>>

\* lines 65-71: the Wikipedia try/except, the page fetched and classified
WikipediaScraped ==
    /\ pc = "wikipedia"
    /\ Truthy("wikipedia_url", wikipedia_url)
    /\ \E page \in WikipediaPages, llm \in LLMOutcomes(api_key) :
          LET r == _scrape_wikipedia(Fetched(page), llm)
          IN  /\ profile_data' = WikipediaBlock(profile_data, r)
              /\ wiki_attempt' = Attempt(Fetched(page), WikipediaFields(page), llm, r)
    /\ pc' = "website"
    /\ UNCHANGED <<other_vars, api_vars, render_vars, api_key, company_name, website_url, wikipedia_url, web_attempt, profile>>

\* lines 65-71: the Wikipedia try/except, the fetch raising
WikipediaFailed ==
    /\ pc = "wikipedia"
    /\ Truthy("wikipedia_url", wikipedia_url)
    /\ \E e \in WikipediaErrors :
          LET fetch == FetchFailed(e, NoWikipediaPage)
              r == _scrape_wikipedia(fetch, NoLLM)
          IN  /\ profile_data' = WikipediaBlock(profile_data, r)
              /\ wiki_attempt' = Attempt(fetch, EmptyDict, NoLLM, r)
    /\ pc' = "website"
    /\ UNCHANGED <<other_vars, api_vars, render_vars, api_key, company_name, website_url, wikipedia_url, web_attempt, profile>>

\* line 74: `if website_url:` is false
WebsiteSkipped ==
    /\ pc = "website"
    /\ ~Truthy("website_url", website_url)
    /\ web_attempt' = [NoAttempt EXCEPT !.state = "skipped"]
    /\ pc' = "status"
    /\ UNCHANGED <<other_vars, api_vars, render_vars, api_key, company_name, website_url, wikipedia_url, profile_data,
                   wiki_attempt, profile>>

\* lines 75-89: the website try/except, the page fetched and classified
WebsiteScraped ==
    /\ pc = "website"
    /\ Truthy("website_url", website_url)
    /\ \E page \in WebsitePages, llm \in LLMOutcomes(api_key) :
          LET r == _scrape_website_simple(Fetched(page), llm)
          IN  /\ profile_data' = WebsiteBlock(profile_data, r)
              /\ web_attempt' = Attempt(Fetched(page), WebsiteFields(page), llm, r)
    /\ pc' = "status"
    /\ UNCHANGED <<other_vars, api_vars, render_vars, api_key, company_name, website_url, wikipedia_url, wiki_attempt, profile>>

\* lines 75-89: the website try/except, the fetch raising
WebsiteFailed ==
    /\ pc = "website"
    /\ Truthy("website_url", website_url)
    /\ \E e \in WebsiteErrors :
          LET fetch == FetchFailed(e, NoWebsitePage)
              r == _scrape_website_simple(fetch, NoLLM)
          IN  /\ profile_data' = WebsiteBlock(profile_data, r)
              /\ web_attempt' = Attempt(fetch, EmptyDict, NoLLM, r)
    /\ pc' = "status"
    /\ UNCHANGED <<other_vars, api_vars, render_vars, api_key, company_name, website_url, wikipedia_url, wiki_attempt, profile>>

\* lines 91-97: the status is set and the profile is built and returned
DetermineStatus ==
    /\ pc = "status"
    /\ profile_data' = Put(profile_data, "scrape_status", ScrapeStatus(profile_data))
    /\ profile' = CompanyProfile(profile_data')
    /\ pc' = "done"
    /\ UNCHANGED <<other_vars, api_vars, render_vars, api_key, company_name, website_url, wikipedia_url, wiki_attempt, web_attempt>>

Next ==
    \/ WikipediaSkipped
    \/ WikipediaScraped
    \/ WikipediaFailed
    \/ WebsiteSkipped
    \/ WebsiteScraped
    \/ WebsiteFailed
    \/ DetermineStatus

Spec == Init /\ [][Next]_vars

TypeOK ==
    /\ pc \in {"idle", "wikipedia", "website", "status", "done"}
    /\ DOMAIN profile = ProfileFields

---------------------------------------------------------------------------
(* Properties of scrape_company.                                           *)

Succeeded(a) == a.state = "ok"
Failed(a) == a.state = "raised"

\* field k of the returned profile is not None
Present(k) == profile[k].some
\* field k of the returned profile is not None and not empty
Informative(k) == profile[k].some /\ Truthy(k, IF k \in OptionalKeys THEN profile[k] ELSE profile[k].val)

TerminalStatuses == {"success", "partial", "failed"}

\* C1: scrape_company never raises: whatever the URLs are and whatever each
\* extraction and classification attempt does, every step of the call has a
\* continuation, and the profile returned carries a terminal scrape_status
\* (success, partial or failed, never pending).
C1_NeverRaisesTerminalStatus ==
    /\ pc # "done" => ENABLED Next
    /\ pc = "done" =>
          /\ Present("scrape_status")
          /\ profile["scrape_status"].val \in TerminalStatuses

\* both extractions raised and a profile was returned all the same
C1_Witness ==
    /\ pc = "done"
    /\ Failed(wiki_attempt) /\ Failed(web_attempt)
    /\ profile["scrape_status"] = Some("failed")

\* C2 as stated: scrape_status is failed iff description and industry are
\* both absent (None) in the returned profile.
C2_Original_FailedIffAbsent ==
    pc = "done" =>
        (profile["scrape_status"] = Some("failed")
            <=> (~Present("description") /\ ~Present("industry")))

\* C2 (amended): scrape_status is failed iff neither description nor industry
\* holds a non-empty value (each is absent or the empty string), regardless of
\* whether an error was recorded.
C2_FailedIffNothingInformative ==
    pc = "done" =>
        (profile["scrape_status"] = Some("failed")
            <=> (~Informative("description") /\ ~Informative("industry")))

\* a profile whose description is present but empty, and which is failed
C2_Witness ==
    /\ pc = "done"
    /\ profile["description"] = Some("")
    /\ ~Present("industry")
    /\ profile["scrape_status"] = Some("failed")

\* C3: when description or industry holds a value, scrape_status is success
\* if no extraction attempt raised and partial if at least one raised,
\* whatever the text of the error is.
C3_SuccessOrPartialByErrors ==
    (pc = "done" /\ (Informative("description") \/ Informative("industry"))) =>
        profile["scrape_status"] =
            IF Failed(wiki_attempt) \/ Failed(web_attempt)
            THEN Some("partial")
            ELSE Some("success")

\* C4: scrape_error is the message of the first attempt that raised
\* (Wikipedia before website), the website's error never replacing the
\* Wikipedia one, and it is None when no attempt raised.
C4_FirstErrorKept ==
    pc = "done" =>
        profile["scrape_error"] =
            IF Failed(wiki_attempt) THEN Some(wiki_attempt.error)
            ELSE IF Failed(web_attempt) THEN Some(web_attempt.error)
            ELSE NoneStr

Supplied(url) == Truthy("website_url", url)

\* C5 as stated: source_type is combined iff both URLs were supplied and at
\* least one extraction succeeded; otherwise it names the single source that
\* succeeded, or is None.
C5_Original_CombinedIfBothSupplied ==
    pc = "done" =>
        profile["source_type"] =
            IF /\ Supplied(wikipedia_url) /\ Supplied(website_url)
               /\ (Succeeded(wiki_attempt) \/ Succeeded(web_attempt))
            THEN Some("combined")
            ELSE IF Succeeded(wiki_attempt) THEN Some("wikipedia")
            ELSE IF Succeeded(web_attempt) THEN Some("website")
            ELSE NoneStr

\* C5 (amended): source_type is combined iff both extractions succeeded;
\* otherwise it names the single source that succeeded, or is None when no
\* source was supplied or none succeeded.
C5_CombinedIffBothSucceeded ==
    pc = "done" =>
        profile["source_type"] =
            IF Succeeded(wiki_attempt) /\ Succeeded(web_attempt) THEN Some("combined")
            ELSE IF Succeeded(wiki_attempt) THEN Some("wikipedia")
            ELSE IF Succeeded(web_attempt) THEN Some("website")
            ELSE NoneStr

\* both URLs supplied, only the Wikipedia extraction succeeded
C5_Witness ==
    /\ pc = "done"
    /\ Supplied(wikipedia_url) /\ Supplied(website_url)
    /\ Succeeded(wiki_attempt) /\ Failed(web_attempt)
    /\ profile["source_type"] = Some("wikipedia")

\* two classifier values name the same topics
SameTopics(a, b) == a.some = b.some /\ Range(a.val) = Range(b.val)

\* v is a value the classifier can return on data: None on an empty
\* composite, the keyword match when no API key is configured, and otherwise
\* whatever the LLM answers (None or a non-empty list of vocabulary topics)
\* or, when the request fails, the keyword match
ClassifierCanReturn(v, data) ==
    IF ~HasCompanyInfo(data) THEN v = None
    ELSE IF ~api_key THEN SameTopics(v, _infer_regulatory_topics_fallback(data))
    ELSE \/ v = None
         \/ v.some /\ v.val # <<>> /\ Range(v.val) \subseteq Range(available_topics)

AsField(k, v) == IF k \in OptionalKeys THEN v ELSE Some(v)

\* every non-empty value of the Wikipedia result is in the returned profile
WikipediaValuesKept ==
    (pc = "done" /\ Succeeded(wiki_attempt)) =>
        \A k \in DOMAIN wiki_attempt.data :
            Truthy(k, wiki_attempt.data[k]) =>
                profile[k] = AsField(k, wiki_attempt.data[k])

\* a step of the website block changes a key of profile_data (other than
\* the provenance and error keys) only from absent or empty to a non-empty
\* value of the website result
WebsiteFillsOnlyGaps ==
    (pc = "website" /\ pc' = "status") =>
        /\ DOMAIN profile_data \subseteq DOMAIN profile_data'
        /\ \A k \in DOMAIN profile_data' \ {"source_type", "scrape_error"} :
              (k \notin DOMAIN profile_data \/ profile_data'[k] # profile_data[k]) =>
                  /\ ~GetTruthy(profile_data, k)
                  /\ Succeeded(web_attempt')
                  /\ GetTruthy(web_attempt'.data, k)
                  /\ profile_data'[k] = web_attempt'.data[k]

\* C7: first-non-empty wins: every field the Wikipedia result populated with
\* a non-empty value keeps it in the returned profile; the website result
\* only fills fields that are absent or empty after the Wikipedia step, and
\* never with an empty value.
C7_FirstNonEmptyWins == [](WikipediaValuesKept) /\ [][WebsiteFillsOnlyGaps]_vars

\* both sources have a description, Wikipedia's survives, and the website
\* filled technologies_used
C7_Witness ==
    /\ pc = "done"
    /\ Succeeded(wiki_attempt) /\ Succeeded(web_attempt)
    /\ GetTruthy(wiki_attempt.data, "description")
    /\ GetTruthy(web_attempt.data, "description")
    /\ wiki_attempt.data["description"] # web_attempt.data["description"]
    /\ profile["description"] = Some(wiki_attempt.data["description"])
    /\ GetTruthy(web_attempt.data, "technologies_used")
    /\ profile["technologies_used"] = Some(web_attempt.data["technologies_used"])

\* C8: both URLs supplied, the Wikipedia extraction raises and the website
\* extraction succeeds with a description: the profile is partial, its
\* scrape_error is the Wikipedia error text and its source_type is website.
C8_WikipediaFailsWebsiteSucceeds ==
    (/\ pc = "done"
     /\ Supplied(wikipedia_url) /\ Supplied(website_url)
     /\ Failed(wiki_attempt)
     /\ Succeeded(web_attempt) /\ GetTruthy(web_attempt.data, "description")) =>
        /\ profile["scrape_status"] = Some("partial")
        /\ profile["scrape_error"] = Some(wiki_attempt.error)
        /\ profile["source_type"] = Some("website")

\* the attempt produced nothing: not made, raised, or an empty field set
NothingFrom(a) ==
    \/ a.state = "skipped"
    \/ Failed(a)
    \/ (Succeeded(a) /\ DOMAIN a.fields = {})

\* C9: when every supplied source fails or returns an empty field set (or
\* no source is supplied), the profile is failed and regulatory_topics is None.
C9_NothingScrapedIsFailed ==
    (pc = "done" /\ NothingFrom(wiki_attempt) /\ NothingFrom(web_attempt)) =>
        /\ profile["scrape_status"] = Some("failed")
        /\ profile["regulatory_topics"] = None

\* both pages were fetched and neither had any of the expected markup,
\* whatever the LLM would have answered
C9_Witness ==
    /\ pc = "done"
    /\ Succeeded(wiki_attempt) /\ DOMAIN wiki_attempt.fields = {}
    /\ Succeeded(web_attempt) /\ DOMAIN web_attempt.fields = {}
    /\ web_attempt.llm.kind = "content"
    /\ profile["scrape_status"] = Some("failed")

\* the primary tier is unavailable or raises
PrimaryFails(llm) == llm.kind \in {"no_api_key", "request_error", "no_content"}

\* the classifier ran on a non-empty composite and the primary tier failed
FellBack(a) == a.fetched /\ HasCompanyInfo(a.fields) /\ PrimaryFails(a.llm)

WellFormedTopics(v) ==
    \/ v = None
    \/ v.some /\ v.val # <<>> /\ Range(v.val) \subseteq Range(available_topics)

\* the comma-separated entries of an LLM response, stripped
ResponseEntries(content) ==
    LET parts == Split(Strip(content), ",")
    IN  {Strip(parts[i]) : i \in 1..Len(parts)}

\* the classifier parsed an LLM response for attempt a
ParsedResponse(a) ==
    Succeeded(a) /\ HasCompanyInfo(a.fields) /\ a.llm.kind = "content"

\* C11: every value the classifier returns, and so regulatory_topics of
\* every profile, is None or a non-empty list of vocabulary topics; the
\* entries of an LLM response that are outside the vocabulary are dropped and
\* a response without a valid entry (the literal none included) gives None.
C11_TopicsNoneOrVocabulary ==
    /\ \A a \in {wiki_attempt, web_attempt} :
          /\ Succeeded(a) => WellFormedTopics(a.data["regulatory_topics"])
          /\ ParsedResponse(a) =>
                Range(a.data["regulatory_topics"].val) =
                    ResponseEntries(a.llm.content) \cap Range(available_topics)
    /\ pc = "done" => WellFormedTopics(profile["regulatory_topics"])

\* a response with one valid and two invalid entries was parsed for the
\* website, a response without a valid entry for Wikipedia
C11_Witness ==
    /\ pc = "done"
    /\ ParsedResponse(wiki_attempt) /\ wiki_attempt.llm.content = "Unknown"
    /\ wiki_attempt.data["regulatory_topics"] = None
    /\ ParsedResponse(web_attempt) /\ web_attempt.llm.content = " AI Act ,Unknown, gdpr"
    /\ profile["regulatory_topics"] = Some(<<"AI Act">>)

\* the keyword table as the specification prints it
SpecKeywordTable ==
    [t \in Range(available_topics) |->
        CASE t = "AI Act" ->
                {"ai", "artificial intelligence", "machine learning", "ml",
                 "algorithm", "neural", "deep learning"}
          [] t = "GDPR" ->
                {"data", "privacy", "gdpr", "personal", "information",
                 "data protection", "consent"}
          [] t = "Cybersecurity" ->
                {"security", "cyber", "encryption", "authentication",
                 "firewall", "threat", "vulnerability"}
          [] t = "BaFin" ->
                {"finance", "banking", "payment", "fintech", "financial",
                 "investment", "trading", "broker"}
          [] t = "AMLR" ->
                {"anti-money laundering", "aml", "money laundering", "kyc",
                 "due diligence", "onboarding", "identity verification",
                 "customer verification"}
          [] t = "ESG" ->
                {"environmental", "social", "governance", "esg",
                 "sustainability", "climate", "green", "carbon", "renewable"}]

\* the AMLR keywords of the code that the printed table lacks
ExtraAMLRKeywords ==
    {"amlr", "financial crime", "compliance", "transaction monitoring",
     "know your customer"}

\* the table with the AMLR row completed
CodeKeywordTable ==
    [t \in Range(available_topics) |->
        IF t = "AMLR"
        THEN SpecKeywordTable[t] \cup ExtraAMLRKeywords
        ELSE SpecKeywordTable[t]]

\* the text of a field of the composite, list members separated by spaces
FieldText(fields, k) ==
    IF k \in {"description", "industry"}
    THEN Get(fields, k, "")
    ELSE Join(" ", Get(fields, k, <<>>))

\* the lower-cased composite text of a field set
CompositeLower(fields) ==
    Lower(FieldText(fields, "description") \o " " \o FieldText(fields, "industry")
          \o " " \o FieldText(fields, "products_services")
          \o " " \o FieldText(fields, "technologies_used")
          \o " " \o FieldText(fields, "keywords"))

\* the topics of which a keyword of table occurs in the composite of fields
TopicsByTable(table, fields) ==
    {t \in Range(available_topics) :
        \E kw \in table[t] : Contains(CompositeLower(fields), kw)}

\* value is what a keyword match with table gives on fields
MatchesTable(value, table, fields) ==
    IF TopicsByTable(table, fields) = {}
    THEN value = None
    ELSE value.some /\ Range(value.val) = TopicsByTable(table, fields)

\* the fallback classified the fields of attempt a
FallbackClassified(a) == Succeeded(a) /\ FellBack(a)

\* C12 as stated: the fallback includes a topic exactly when a keyword of
\* the printed table occurs in the lower-cased composite text, and returns
\* None when none occurs.
C12_Original_FallbackBySpecTable ==
    \A a \in {wiki_attempt, web_attempt} :
        FallbackClassified(a) =>
            MatchesTable(a.data["regulatory_topics"], SpecKeywordTable, a.fields)

\* C12: the fallback includes a topic exactly when a keyword of the code's
\* table (the printed table plus amlr, financial crime, compliance,
\* transaction monitoring and know your customer for AMLR) occurs in the
\* lower-cased composite text, and returns None when no keyword occurs.
C12_FallbackByCodeTable ==
    \A a \in {wiki_attempt, web_attempt} :
        FallbackClassified(a) =>
            MatchesTable(a.data["regulatory_topics"], CodeKeywordTable, a.fields)

\* the fallback found AMLR through compliance alone for the website, and a
\* topic through an upper-case word, or nothing, for Wikipedia
C12_Witness ==
    /\ FallbackClassified(web_attempt)
    /\ Get(web_attempt.fields, "description", "") = "Compliance software for banks."
    /\ web_attempt.data["regulatory_topics"] = Some(<<"AMLR">>)
    /\ FallbackClassified(wiki_attempt)
    /\ wiki_attempt.data["regulatory_topics"] = None

\* the field set of Example 1
Example1Fields ==
    Put(Put(EmptyDict, "industry", "Payments"),
        "description", "We process card payments for merchants.")

\* Example 1 happened: the only source, Wikipedia, gave the field set of
\* Example 1 without an error and the fallback classified it
Example1(a) == FallbackClassified(a) /\ a.fields = Example1Fields

\* C13 as stated: on Example 1 the fallback yields GDPR and BaFin and the
\* status is success.
C13_Original_Example1GdprBafin ==
    (pc = "done" /\ Example1(wiki_attempt) /\ web_attempt.state = "skipped") =>
        /\ SameTopics(profile["regulatory_topics"], Some(<<"GDPR", "BaFin">>))
        /\ profile["scrape_status"] = Some("success")

\* C13: on Example 1 the fallback yields BaFin alone (payment occurs in the
\* text, no GDPR keyword does) and the status is success.
C13_Example1BafinOnly ==
    (pc = "done" /\ Example1(wiki_attempt) /\ web_attempt.state = "skipped") =>
        /\ wiki_attempt.data["regulatory_topics"] = Some(<<"BaFin">>)
        /\ profile["regulatory_topics"] = Some(<<"BaFin">>)
        /\ profile["scrape_status"] = Some("success")

C13_Witness ==
    /\ pc = "done" /\ Example1(wiki_attempt) /\ web_attempt.state = "skipped"
    /\ profile["regulatory_topics"] = Some(<<"BaFin">>)
    /\ profile["scrape_error"] = NoneStr

\* what the extraction call of attempt a did, as the blocks take it
ResultOf(a) ==
    [raised |-> a.state = "raised", error |-> a.error, data |-> a.data, did |-> a.did]

\* the keys both extractions returned
CommonKeys == DOMAIN wiki_attempt.data \cap DOMAIN web_attempt.data

\* profile_data had the website block (lines 74-89) run before the
\* Wikipedia block (lines 64-71), on the same two results
OtherOrder ==
    WikipediaBlock(
        WebsiteBlock(InitialProfileData(company_name, website_url, wikipedia_url),
                     ResultOf(web_attempt)),
        ResultOf(wiki_attempt))

\* d and e hold the same scraped fields
SameFields(d, e) ==
    \A k \in (DOMAIN d \cup DOMAIN e) \ {"source_type", "scrape_status", "scrape_error"} :
        k \in DOMAIN d /\ k \in DOMAIN e /\ d[k] = e[k]

\* both extractions returned
BothReturned == pc = "done" /\ Succeeded(wiki_attempt) /\ Succeeded(web_attempt)

\* C14 as stated: of a field both sources return the value of Wikipedia
\* survives, and the merged fields are what the two steps give in the other
\* order too.
C14_Original_OrderIndependent ==
    BothReturned =>
        /\ \A k \in CommonKeys : profile[k] = AsField(k, wiki_attempt.data[k])
        /\ SameFields(profile_data, OtherOrder)

\* C14: the Wikipedia step always runs before the website step; of a field
\* both sources return, the value of Wikipedia survives when it is non-empty
\* and otherwise a non-empty value of the website does.
C14_FixedOrderNonEmptyWins ==
    /\ web_attempt.state # "pending" => wiki_attempt.state # "pending"
    /\ BothReturned =>
          \A k \in CommonKeys :
              profile[k] =
                  IF ~Truthy(k, wiki_attempt.data[k]) /\ Truthy(k, web_attempt.data[k])
                  THEN AsField(k, web_attempt.data[k])
                  ELSE AsField(k, wiki_attempt.data[k])

\* both sources return a description and topics: those of Wikipedia are
\* empty and the website's survive, and the other order would have given
\* other fields
C14_Witness ==
    /\ BothReturned
    /\ "description" \in DOMAIN wiki_attempt.data
    /\ wiki_attempt.data["description"] = ""
    /\ GetTruthy(web_attempt.data, "description")
    /\ profile["description"] = Some(web_attempt.data["description"])
    /\ wiki_attempt.data["regulatory_topics"] = None
    /\ GetTruthy(web_attempt.data, "regulatory_topics")
    /\ profile["regulatory_topics"] = web_attempt.data["regulatory_topics"]
    /\ ~SameFields(profile_data, OtherOrder)

\* the composite text of the five fields is empty, as line 306 builds it
EmptyComposite(a) == a.fetched /\ ~HasCompanyInfo(a.fields)

\* C16: when the composite text built from description, industry,
\* products_services, technologies_used and keywords is empty, the classifier
\* returns None at once: it issues no LLM request and does not run the
\* fallback.
C16_EmptyCompositeReturnsNoneAtOnce ==
    \A a \in {wiki_attempt, web_attempt} :
        EmptyComposite(a) =>
            /\ Succeeded(a)
            /\ a.data["regulatory_topics"] = None
            /\ a.did = <<>>

\* an API key is configured and the LLM would have answered GDPR, but the
\* page gave no text: no request; the other source had text and sent one
C16_Witness ==
    /\ EmptyComposite(wiki_attempt)
    /\ wiki_attempt.llm = [kind |-> "content", content |-> "GDPR"]
    /\ wiki_attempt.did = <<>>
    /\ wiki_attempt.data["regulatory_topics"] = None
    /\ web_attempt.fetched /\ HasCompanyInfo(web_attempt.fields)
    /\ web_attempt.did = <<"request">>

\* the two attempts, each with the source_type values that count it in
SourcesCounted ==
    { [attempt |-> wiki_attempt, counted |-> {"wikipedia", "combined"}],
      [attempt |-> web_attempt, counted |-> {"website", "combined"}] }

\* C19: missing markup is never an error: when the fetch succeeds the
\* extractor returns a field set, empty if the page has none of the expected
\* markup, scrape_company records no scrape_error for that source and counts
\* it as succeeded; an extractor raises only when its fetch failed.
C19_MissingMarkupIsNoError ==
    /\ \A s \in SourcesCounted :
          /\ s.attempt.fetched => Succeeded(s.attempt) /\ s.attempt.error = ""
          /\ s.attempt.state = "raised" => ~s.attempt.fetched
          /\ (pc = "done" /\ s.attempt.fetched) =>
                profile["source_type"].val \in s.counted
    /\ (pc = "done" /\ wiki_attempt.state # "raised" /\ web_attempt.state # "raised") =>
          profile["scrape_error"] = NoneStr

\* both pages were fetched and neither had any of the expected markup
C19_Witness ==
    /\ pc = "done"
    /\ wiki_attempt.fetched /\ wiki_attempt.fields = EmptyDict
    /\ web_attempt.fetched /\ web_attempt.fields = EmptyDict
    /\ Succeeded(wiki_attempt) /\ Succeeded(web_attempt)
    /\ profile["scrape_error"] = NoneStr
    /\ profile["source_type"] = Some("combined")
    /\ profile["scrape_status"] = Some("failed")

---------------------------------------------------------------------------
(* The scraping endpoints of api/companies.py: POST /companies/scrape      *)
(* (scrape_companies) and POST /companies/scrape/single (scrape_company).  *)

MaxUrls == 3

RECURSIVE Replace(_, _, _)
\* str.replace(old, new), old non-empty
Replace(s, old, new) ==
    LET i == Find(s, old)
    IN  IF i = 0
        THEN s
        ELSE SubSeq(s, 1, i - 1) \o new \o Replace(From(s, i + Len(old)), old, new)

\* urlsplit: what follows the scheme and its colon, if url starts with one
AfterScheme(url) ==
    LET i == Find(url, ":")
    IN  IF /\ i > 1
           /\ IsUpper(SubSeq(url, 1, 1)) \/ IsLower(SubSeq(url, 1, 1))
           /\ Chars(SubSeq(url, 1, i - 1)) \subseteq
                 UpperChars \cup LowerChars \cup DigitChars \cup {"+", "-", "."}
        THEN From(url, i + 1)
        ELSE url

\* urlsplit: the netloc of //netloc/path?query#fragment
NetlocOf(rest) ==
    LET stops == {j \in 3..Len(rest) : SubSeq(rest, j, j) \in {"/", "?", "#"}}
        stop == IF stops = {}
                THEN Len(rest) + 1
                ELSE CHOOSE j \in stops : \A k \in stops : j <= k
    IN  IF MatchAt(rest, 1, "//") THEN SubSeq(rest, 3, stop - 1) ELSE ""

\* urlparse(url): the netloc, or the ValueError of an unmatched bracket
urlparse(url) ==
    LET netloc == NetlocOf(AfterScheme(url))
    IN  IF Contains(netloc, "[") # Contains(netloc, "]")
        THEN [raised |-> TRUE, error |-> "Invalid IPv6 URL", netloc |-> ""]
        ELSE [raised |-> FALSE, error |-> "", netloc |-> netloc]

\* parsed_url.netloc.replace('www.', '').split('.')[0]
NameOfNetloc(netloc) == Split(Replace(netloc, "www.", ""), ".")[1]

\* CompanyScraper.scrape_company as one call: rw and rweb are what the two
\* extractors do when they are called
scrape_company(name, website, wikipedia, rw, rweb) ==
    LET pd0 == InitialProfileData(name, website, wikipedia)
        pd1 == IF Truthy("wikipedia_url", wikipedia) THEN WikipediaBlock(pd0, rw) ELSE pd0
        pd2 == IF Truthy("website_url", website) THEN WebsiteBlock(pd1, rweb) ELSE pd1
    IN  CompanyProfile(Put(pd2, "scrape_status", ScrapeStatus(pd2)))

\* the number of extractor calls scrape_company makes
ExtractorCalls(website, wikipedia) ==
    (IF Truthy("wikipedia_url", wikipedia) THEN 1 ELSE 0)
        + (IF Truthy("website_url", website) THEN 1 ELSE 0)

\* the fields of CompanyProfileSimple
SimpleFields ==
    {"company_name", "description", "industry", "regulatory_topics", "website_url"}

\* CompanyProfileSimple(company_name=profile.company_name, ...)
CompanyProfileSimple(p) == [k \in SimpleFields |-> p[k]]

\* one pass of the try block of the loop of scrape_companies
ScrapeUrl(url, rweb) ==
    LET parsed_url == urlparse(url)
    IN  IF parsed_url.raised
        THEN [raised |-> TRUE, error |-> parsed_url.error,
              profile |-> CompanyProfileSimple(NoProfile)]
        ELSE [raised |-> FALSE, error |-> "",
              profile |-> CompanyProfileSimple(
                  scrape_company(NameOfNetloc(parsed_url.netloc), Some(url), NoneStr,
                                 Raised(""), rweb))]

\* a variant whose except clause goes on to the next url without a record
RecordError_Skip(errs, url, error) == errs

\* errors.append({"url": url, "error": str(e)})
RecordError(errs, url, error) == Append(errs, [url |-> url, error |-> error])

\* a variant that stamps only the profiles that hold something
Stamp_UnlessFailed(p, now) ==
    IF p["scrape_status"] = Some("failed")
    THEN p
    ELSE [p EXCEPT !["last_scraped_at"] = Some(now)]

\* profile.last_scraped_at = datetime.utcnow()
Stamp(p, now) == [p EXCEPT !["last_scraped_at"] = Some(now)]

HexChars == DigitChars \cup Chars("abcdefABCDEF")

\* the text is a UUID: 32 hexadecimal digits, hyphens apart
IsUUID(text) ==
    LET hex == Replace(text, "-", "")
    IN  Len(hex) = 32 /\ Chars(hex) \subseteq HexChars

\* a variant that also requires one of the two URLs
ValidRequest_RequiresUrl(route, body) ==
    IF route = "/companies/scrape/single"
    THEN /\ body.company_name.some
         /\ body.user_id.some /\ IsUUID(body.user_id.val)
         /\ body.website_url.some \/ body.wikipedia_url.some
    ELSE body.urls.some /\ body.urls.val # <<>>

\* the body validates as the request model of the route: CompanyProfileCreate
\* (company_name: str and user_id: UUID required, the URLs optional) or
\* CompanyScrapeRequest (urls: list[str] required)
ValidRequest(route, body) ==
    IF route = "/companies/scrape/single"
    THEN /\ body.company_name.some
         /\ body.user_id.some /\ IsUUID(body.user_id.val)
    ELSE body.urls.some

\* values of datetime.utcnow()
Timestamps == {"2026-11-04T12:00:00", "2026-11-04T12:00:01"}

UserIds == {NoneStr, Some("not-a-uuid"), Some("123e4567-e89b-12d3-a456-426614174000")}

BatchUrls == {"https://www.acme.example/about", "http://[acme", ""}

RECURSIVE SeqsUpTo(_, _)
\* the sequences over S of length at most n
SeqsUpTo(S, n) ==
    IF n = 0 THEN {<<>>}
    ELSE LET shorter == SeqsUpTo(S, n - 1)
         IN  shorter \cup {Append(q, x) : q \in shorter, x \in S}

\* the request bodies a client sends to route
Requests(route) ==
    IF route = "/companies/scrape/single"
    THEN { [company_name |-> n, website_url |-> w, wikipedia_url |-> k,
            user_id |-> u, urls |-> NoUrls] :
              n \in {NoneStr, Some("Acme")}, w \in Urls, k \in Urls, u \in UserIds }
    ELSE { [NoRequest EXCEPT !.urls = l] :
              l \in {NoUrls} \cup {Some(q) : q \in SeqsUpTo(BatchUrls, MaxUrls)} }

\* what a call of an extractor can do, given the configuration
WikipediaResults ==
    [key \in BOOLEAN |->
        {_scrape_wikipedia(Fetched(page), llm) :
            page \in WikipediaPages, llm \in LLMOutcomes(key)}
        \cup {_scrape_wikipedia(FetchFailed(e, NoWikipediaPage), NoLLM) :
                 e \in WikipediaErrors}]

WebsiteResults ==
    [key \in BOOLEAN |->
        {_scrape_website_simple(Fetched(page), llm) :
            page \in WebsitePages, llm \in LLMOutcomes(key)}
        \cup {_scrape_website_simple(FetchFailed(e, NoWebsitePage), NoLLM) :
                 e \in WebsiteErrors}]

\* the pages the URLs of a batch serve
BatchPages ==
    {page \in WebsitePages : page.page_text \in {"", "Secure payment platform on AWS"}}

BatchResults ==
    [key \in BOOLEAN |->
        {_scrape_website_simple(Fetched(page), llm) :
            page \in BatchPages, llm \in LLMOutcomes(key)}
        \cup {_scrape_website_simple(FetchFailed(e, NoWebsitePage), NoLLM) :
                 e \in WebsiteErrors}]

\* the 422 of FastAPI's request validation / the 200 of a handler's return
Unprocessable == [NoResponse EXCEPT !.code = 422]
Ok(data, errs) ==
    [code |-> 200, success |-> TRUE, data |-> data,
     errors |-> IF errs # <<>> THEN Some(errs) ELSE NoUrls]

ApiInit ==
    /\ endpoint \in {"/companies/scrape", "/companies/scrape/single"}
    /\ request \in Requests(endpoint)
    /\ api_pc = "validate"
    /\ url_index = 1
    /\ profiles = <<>>
    /\ errors = <<>>
    /\ response = NoResponse
    /\ extractions = 0
    /\ api_key \in BOOLEAN
    /\ ScraperIdle
    /\ RenderIdle
    /\ OthersIdle

\* the body does not validate: FastAPI answers 422 and the handler is not called
RejectRequest ==
    /\ api_pc = "validate"
    /\ ~ValidRequest(endpoint, request)
    /\ response' = Unprocessable
    /\ api_pc' = "done"
    /\ UNCHANGED <<other_vars, endpoint, request, url_index, profiles, errors, extractions,
                   scraper_vars, render_vars, api_key>>

\* POST /companies/scrape/single: lines 165-195
api_scrape_company ==
    /\ api_pc = "validate"
    /\ endpoint = "/companies/scrape/single"
    /\ ValidRequest(endpoint, request)
    /\ \E rw \in WikipediaResults[api_key], rweb \in WebsiteResults[api_key],
          now \in Timestamps :
          LET p == scrape_company(request.company_name.val, request.website_url,
                                  request.wikipedia_url, rw, rweb)
          IN  response' = Ok(<<Stamp(p, now)>>, <<>>)
    /\ extractions' = extractions + ExtractorCalls(request.website_url,
                                                   request.wikipedia_url)
    /\ api_pc' = "done"
    /\ UNCHANGED <<other_vars, endpoint, request, url_index, profiles, errors,
                   scraper_vars, render_vars, api_key>>

\* POST /companies/scrape: lines 48-56, up to the loop
scrape_companies_begin ==
    /\ api_pc = "validate"
    /\ endpoint = "/companies/scrape"
    /\ ValidRequest(endpoint, request)
    /\ profiles' = <<>>
    /\ errors' = <<>>
    /\ url_index' = 1
    /\ api_pc' = "loop"
    /\ UNCHANGED <<other_vars, endpoint, request, response, extractions,
                   scraper_vars, render_vars, api_key>>

\* lines 58-87: one pass of the loop, for url = request.urls[url_index]
scrape_companies_url ==
    /\ api_pc = "loop"
    /\ url_index <= Len(request.urls.val)
    /\ LET url == request.urls.val[url_index]
       IN  /\ \E rweb \in BatchResults[api_key] :
                 LET r == ScrapeUrl(url, rweb)
                 IN  IF r.raised
                     THEN /\ errors' = RecordError(errors, url, r.error)
                          /\ profiles' = profiles
                     ELSE /\ profiles' = Append(profiles, r.profile)
                          /\ errors' = errors
           /\ extractions' =
                 IF urlparse(url).raised
                 THEN extractions
                 ELSE extractions + ExtractorCalls(Some(url), NoneStr)
    /\ url_index' = url_index + 1
    /\ UNCHANGED <<other_vars, endpoint, request, api_pc, response,
                   scraper_vars, render_vars, api_key>>

\* lines 89-94: the loop is over
scrape_companies_return ==
    /\ api_pc = "loop"
    /\ url_index > Len(request.urls.val)
    /\ response' = Ok(profiles, errors)
    /\ api_pc' = "done"
    /\ UNCHANGED <<other_vars, endpoint, request, url_index, profiles, errors, extractions,
                   scraper_vars, render_vars, api_key>>

ApiNext ==
    \/ RejectRequest
    \/ api_scrape_company
    \/ scrape_companies_begin
    \/ scrape_companies_url
    \/ scrape_companies_return

SpecApi == ApiInit /\ [][ApiNext]_vars

\* the number of members of seq that equal x
Count(seq, x) == Cardinality({i \in 1..Len(seq) : seq[i] = x})

\* the URLs of the profiles and of the error entries collected so far
ProfileUrls == [i \in 1..Len(profiles) |-> profiles[i]["website_url"].val]
ErrorUrls == [i \in 1..Len(errors) |-> errors[i].url]

\* scrape_companies is in its loop or has returned
InBatch ==
    /\ endpoint = "/companies/scrape"
    /\ api_pc = "loop" \/ (api_pc = "done" /\ response.code = 200)

\* the urls the loop has been through
Processed == SubSeq(request.urls.val, 1, url_index - 1)

\* each url processed so far is in exactly one of the two lists, once for
\* each time it occurs in the request; the error entries are those of the
\* urls whose processing raised
EachUrlInOneList ==
    InBatch =>
        /\ Len(profiles) + Len(errors) = Len(Processed)
        /\ \A u \in BatchUrls :
              /\ Count(ProfileUrls, u) + Count(ErrorUrls, u) = Count(Processed, u)
              /\ Count(ErrorUrls, u) > 0 => urlparse(u).raised
              /\ Count(ProfileUrls, u) > 0 => ~urlparse(u).raised

\* the response holds every url of the request
AllUrlsAnswered ==
    (InBatch /\ api_pc = "done") =>
        /\ response.code = 200 /\ response.success
        /\ response.data = profiles
        /\ response.errors.val = errors
        /\ Len(response.data) + Len(response.errors.val) = Len(request.urls.val)

\* a pass of the loop adds one entry to one list, an {url, error} entry when
\* it failed, and leaves the loop at the next url
OnePassOneEntry ==
    (api_pc = "loop" /\ url_index' = url_index + 1) =>
        /\ api_pc' = "loop"
        /\ \/ /\ profiles' = profiles
              /\ errors' = Append(errors, [url |-> request.urls.val[url_index],
                                           error |-> "Invalid IPv6 URL"])
           \/ /\ errors' = errors
              /\ Len(profiles') = Len(profiles) + 1
              /\ SubSeq(profiles', 1, Len(profiles)) = profiles

\* C15: in batch mode every input URL is processed exactly once and lands in
\* exactly one of the two output lists; a failure while processing a URL adds
\* one {url, error} entry and neither aborts nor skips the remaining URLs; the
\* lengths of the two lists add up to the number of URLs.
C15_EachUrlInExactlyOneList ==
    [](EachUrlInOneList /\ AllUrlsAnswered) /\ [][OnePassOneEntry]_vars

\* three URLs of which the first fails outright: two profiles and one error
C15_Witness ==
    /\ InBatch /\ api_pc = "done"
    /\ Len(request.urls.val) = 3
    /\ urlparse(request.urls.val[1]).raised
    /\ Len(response.data) = 2
    /\ response.errors = Some(<< [url |-> request.urls.val[1],
                                  error |-> "Invalid IPv6 URL"] >>)
    /\ ProfileUrls = Tail(request.urls.val)

\* a handler returned a response with profiles
Answered == api_pc = "done" /\ response.code = 200

\* item carries a completion timestamp
HasTimestamp(item) ==
    "last_scraped_at" \in DOMAIN item /\ item["last_scraped_at"].some

\* C17 as stated: every profile returned carries a completion timestamp, in
\* single-identity mode and for each item of batch mode.
C17_Original_EveryProfileStamped ==
    Answered => \A i \in 1..Len(response.data) : HasTimestamp(response.data[i])

\* C17: the profile the single-identity endpoint returns carries a completion
\* timestamp whatever its status; the items of batch mode carry none.
C17_OnlySingleModeStamped ==
    Answered =>
        IF endpoint = "/companies/scrape/single"
        THEN /\ Len(response.data) = 1
             /\ HasTimestamp(response.data[1])
             /\ response.data[1]["last_scraped_at"].val \in Timestamps
        ELSE \A i \in 1..Len(response.data) : ~HasTimestamp(response.data[i])

\* a failed profile of single-identity mode is stamped
C17_Witness ==
    /\ Answered /\ endpoint = "/companies/scrape/single"
    /\ response.data[1]["scrape_status"] = Some("failed")
    /\ extractions = 2
    /\ HasTimestamp(response.data[1])

\* the request names no URL: neither website_url nor wikipedia_url in
\* single-identity mode, an empty urls list in batch mode
NoUrlGiven ==
    IF endpoint = "/companies/scrape/single"
    THEN ~request.website_url.some /\ ~request.wikipedia_url.some
    ELSE request.urls.some /\ request.urls.val = <<>>

\* a required field of the body is missing or malformed
RequiredFieldMissing ==
    IF endpoint = "/companies/scrape/single"
    THEN \/ ~request.company_name.some
         \/ ~request.user_id.some
         \/ request.user_id.val = "not-a-uuid"
    ELSE ~request.urls.some

\* C18 as stated: a request without a URL is reported as an input-validation
\* failure before any extraction, not answered with a profile or a success.
C18_Original_NoUrlRejected ==
    (api_pc = "done" /\ NoUrlGiven) => response.code = 422 /\ extractions = 0

\* C18: only a body that lacks a required field (company_name or a valid
\* user_id in single-identity mode, urls in batch mode) is rejected, before any
\* extraction; a valid request without a URL is answered with success: a
\* profile of status failed in single-identity mode, an empty list and no
\* errors in batch mode, no extraction having been attempted.
C18_OnlyMissingFieldsRejected ==
    api_pc = "done" =>
        /\ response.code = 422 <=> RequiredFieldMissing
        /\ response.code = 422 => extractions = 0 /\ response.data = <<>>
        /\ (NoUrlGiven /\ ~RequiredFieldMissing) =>
              /\ response.code = 200 /\ response.success
              /\ extractions = 0
              /\ response.errors = NoUrls
              /\ IF endpoint = "/companies/scrape/single"
                 THEN /\ Len(response.data) = 1
                      /\ response.data[1]["scrape_status"] = Some("failed")
                 ELSE response.data = <<>>

\* a single-identity request with a name and a user id but no URL was
\* answered with success
C18_Witness ==
    /\ api_pc = "done" /\ endpoint = "/companies/scrape/single"
    /\ NoUrlGiven /\ ~RequiredFieldMissing
    /\ response.code = 200 /\ response.success
    /\ response.data[1]["scrape_status"] = Some("failed")

---------------------------------------------------------------------------
(* Website Extractor, rendered strategy: _scrape_website (lines 221-285).  *)

\* what Playwright raises: launch, new_page, goto and content
LaunchErrors ==
    { Exception("Error", "Executable doesn't exist at chromium") }
NewPageErrors ==
    { Exception("Error", "Target page, context or browser has been closed") }
GotoErrors ==
    { Exception("TimeoutError", "Timeout 30000ms exceeded."),
      Exception("Error", "net::ERR_NAME_NOT_RESOLVED") }
ContentErrors ==
    { Exception("Error", "Page crashed") }

\* a variant that closes the browser as the last statement of the try body
\* instead of in a finally clause
LeaveTry_CloseOnSuccessOnly(e) == IF e.some THEN "exit_context" ELSE "finally"

\* where control goes when the try body of lines 244-280 ends, normally or
\* with the exception e: to the finally clause of line 282
LeaveTry(e) == "finally"

RenderInit ==
    /\ render_pc = "check"
    /\ browser = "none"
    /\ playwright \in {"unavailable", "none"}
    /\ scraped = EmptyDict
    /\ in_flight = NoException
    /\ outcome = NoOutcome
    /\ api_key \in BOOLEAN
    /\ ScraperIdle
    /\ ApiIdle
    /\ OthersIdle

\* lines 231-235: PLAYWRIGHT_AVAILABLE is false
PlaywrightUnavailable ==
    /\ render_pc = "check"
    /\ playwright = "unavailable"
    /\ outcome' = [state |-> "raised", data |-> EmptyDict,
                   error |-> Exception("ImportError",
                       "Playwright is not installed. Install it with: "
                       \o "pip install playwright && playwright install")]
    /\ render_pc' = "done"
    /\ UNCHANGED <<other_vars, browser, playwright, scraped, in_flight,
                   scraper_vars, api_vars, api_key>>

\* lines 239-241: data = {} and the async_playwright() context is entered
EnterPlaywright ==
    /\ render_pc = "check"
    /\ playwright = "none"
    /\ scraped' = EmptyDict
    /\ playwright' = "started"
    /\ render_pc' = "launch"
    /\ UNCHANGED <<other_vars, browser, in_flight, outcome, scraper_vars, api_vars, api_key>>

\* line 242: the browser is launched
LaunchBrowser ==
    /\ render_pc = "launch"
    /\ browser' = "open"
    /\ render_pc' = "new_page"
    /\ UNCHANGED <<other_vars, playwright, scraped, in_flight, outcome,
                   scraper_vars, api_vars, api_key>>

\* line 242: launch raises, before the try statement
LaunchFails ==
    /\ render_pc = "launch"
    /\ \E e \in LaunchErrors : in_flight' = e
    /\ render_pc' = "exit_context"
    /\ UNCHANGED <<other_vars, browser, playwright, scraped, outcome,
                   scraper_vars, api_vars, api_key>>

\* line 244
NewPage ==
    /\ render_pc = "new_page"
    /\ render_pc' = "goto"
    /\ UNCHANGED <<other_vars, browser, playwright, scraped, in_flight, outcome,
                   scraper_vars, api_vars, api_key>>

NewPageFails ==
    /\ render_pc = "new_page"
    /\ \E e \in NewPageErrors :
          /\ in_flight' = e
          /\ render_pc' = LeaveTry(e)
    /\ UNCHANGED <<other_vars, browser, playwright, scraped, outcome,
                   scraper_vars, api_vars, api_key>>

\* line 245: the page loads within self.timeout
GotoPage ==
    /\ render_pc = "goto"
    /\ render_pc' = "extract"
    /\ UNCHANGED <<other_vars, browser, playwright, scraped, in_flight, outcome,
                   scraper_vars, api_vars, api_key>>

\* line 245: the load times out or fails
GotoFails ==
    /\ render_pc = "goto"
    /\ \E e \in GotoErrors :
          /\ in_flight' = e
          /\ render_pc' = LeaveTry(e)
    /\ UNCHANGED <<other_vars, browser, playwright, scraped, outcome,
                   scraper_vars, api_vars, api_key>>

\* lines 248-277: the content is read and parsed and the fields are extracted
ExtractFields ==
    /\ render_pc = "extract"
    /\ \E page \in WebsitePages : scraped' = WebsiteFields(page)
    /\ render_pc' = "classify"
    /\ UNCHANGED <<other_vars, browser, playwright, in_flight, outcome,
                   scraper_vars, api_vars, api_key>>

\* line 248: page.content() raises
ContentFails ==
    /\ render_pc = "extract"
    /\ \E e \in ContentErrors :
          /\ in_flight' = e
          /\ render_pc' = LeaveTry(e)
    /\ UNCHANGED <<other_vars, browser, playwright, scraped, outcome,
                   scraper_vars, api_vars, api_key>>

\* line 280: the classifier is called; what it raises leaves the try body
ClassifyFields ==
    /\ render_pc = "classify"
    /\ \E llm \in LLMOutcomes(api_key) :
          LET c == _infer_regulatory_topics(scraped, llm)
              e == IF c.raised THEN Exception("Exception", c.error) ELSE NoException
          IN  /\ scraped' = IF c.raised
                            THEN scraped
                            ELSE Put(scraped, "regulatory_topics", c.value)
              /\ in_flight' = e
              /\ render_pc' = LeaveTry(e)
    /\ UNCHANGED <<other_vars, browser, playwright, outcome, scraper_vars, api_vars, api_key>>

\* lines 282-283: finally: await browser.close()
CloseBrowser ==
    /\ render_pc = "finally"
    /\ browser' = "closed"
    /\ render_pc' = "exit_context"
    /\ UNCHANGED <<other_vars, playwright, scraped, in_flight, outcome,
                   scraper_vars, api_vars, api_key>>

\* the end of the async with block: the context is left, and the call
\* returns data (line 285) or the exception goes on to the caller
ExitPlaywright ==
    /\ render_pc = "exit_context"
    /\ playwright' = "stopped"
    /\ outcome' = IF in_flight.some
                  THEN [state |-> "raised", error |-> in_flight, data |-> EmptyDict]
                  ELSE [state |-> "returned", error |-> NoException, data |-> scraped]
    /\ render_pc' = "done"
    /\ UNCHANGED <<other_vars, browser, scraped, in_flight, scraper_vars, api_vars, api_key>>

RenderNext ==
    \/ PlaywrightUnavailable
    \/ EnterPlaywright
    \/ LaunchBrowser
    \/ LaunchFails
    \/ NewPage
    \/ NewPageFails
    \/ GotoPage
    \/ GotoFails
    \/ ExtractFields
    \/ ContentFails
    \/ ClassifyFields
    \/ CloseBrowser
    \/ ExitPlaywright

\* the positions of _scrape_website
RenderPositions ==
    {"check", "launch", "new_page", "goto", "extract", "classify", "finally",
     "exit_context", "done"}

\* the coroutine moves on: every step of RenderNext leaves its position, and
\* at every position but done one of them can be taken
Advance ==
    /\ render_pc \in RenderPositions \ {"done"}
    /\ \E position \in RenderPositions \ {render_pc} : render_pc' = position

\* the event loop keeps running the coroutine until it returns or raises:
\* every await of lines 241-283 completes or raises
SpecRender == RenderInit /\ [][RenderNext]_vars /\ WF_render_pc(Advance)

\* C20: once _scrape_website has launched the browser, the browser is closed
\* on every exit path: the call neither returns nor raises with the browser
\* open, and an open browser is eventually closed.
C20_BrowserClosedOnEveryExit ==
    /\ [](render_pc = "done" => browser # "open")
    /\ [](outcome.state # "running" => render_pc = "done")
    /\ (browser = "open") ~> (browser = "closed" /\ render_pc = "done")

\* the page load timed out with the browser launched, and the call raised
\* with the browser closed
C20_Witness ==
    /\ render_pc = "done"
    /\ outcome.state = "raised"
    /\ outcome.error.cls = "TimeoutError"
    /\ browser = "closed"

---------------------------------------------------------------------------
(* The keyword fallback called repeatedly on one dict                      *)
(* (_infer_regulatory_topics_fallback, company_scraper.py lines 381-417). *)
(*                                                                         *)
(* The function builds a local set, reads `data` with dict.get only, and   *)
(* returns list(topics): the order of a list made from a set of strings    *)
(* follows the string hashes, which differ from one interpreter process to *)
(* the next, so a call returns the topics in any order.                    *)

MaxCalls == 2

\* the dict after data.get(key, default): get never inserts the default
AfterGet_SetDefault(data, key, default) ==
    IF key \in DOMAIN data THEN data ELSE Put(data, key, default)

AfterGet(data, key, default) == data

\* the five reads of lines 394-400, in order
FallbackReads ==
    << <<"description", "">>, <<"industry", "">>, <<"products_services", <<>>>>,
       <<"technologies_used", <<>>>>, <<"keywords", <<>>>> >>

RECURSIVE AfterReads(_, _)
AfterReads(data, reads) ==
    IF reads = <<>>
    THEN data
    ELSE AfterReads(AfterGet(data, Head(reads)[1], Head(reads)[2]), Tail(reads))

\* the lists list(S) can be
Orders(S) == {order \in [1..Cardinality(S) -> S] : Range(order) = S}

\* what one call of the fallback can return on data
FallbackReturns(data) ==
    LET r == _infer_regulatory_topics_fallback(data)
    IN  IF r.some THEN {Some(order) : order \in Orders(Range(r.val))} ELSE {None}

\* the dicts the extractors hand to the classifier, and their merges
ExtractedFields ==
    {WikipediaFields(page) : page \in WikipediaPages}
        \cup {WebsiteFields(page) : page \in WebsitePages}

FallbackInputs ==
    ExtractedFields \cup {Update(d, e) : d \in ExtractedFields, e \in ExtractedFields}

FallbackInit ==
    /\ fb_data \in FallbackInputs
    /\ fb_given = fb_data
    /\ fb_returns = <<>>
    /\ OutsideIdle_fallback

\* one call of _infer_regulatory_topics_fallback(fb_data)
CallFallback ==
    /\ Len(fb_returns) < MaxCalls
    /\ \E returned \in FallbackReturns(fb_data) :
           fb_returns' = Append(fb_returns, returned)
    /\ fb_data' = AfterReads(fb_data, FallbackReads)
    /\ UNCHANGED <<outside_fallback, fb_given>>

FallbackNext == CallFallback

SpecFallback == FallbackInit /\ [][FallbackNext]_vars

\* a returned value as a set of topics (None stays None)
TopicSet(returned) ==
    [some |-> returned.some,
     topics |-> IF returned.some THEN Range(returned.val) ELSE {}]

---------------------------------------------------------------------------
(* The job scheduler (scheduling.py).                                      *)
(*                                                                         *)
(* start() and stop() are called one after the other by one caller; every  *)
(* thread start() creates runs run_schedule (lines 52-57). A loop thread   *)
(* is at "test" (the while test of line 54), in "run_pending" (line 55,    *)
(* todo being the due jobs it has yet to run), in "sleep" (line 56) or     *)
(* "dead". stop() joins for at most five seconds: a thread that is asleep  *)
(* wakes within one second and sees running false, so the join times out   *)
(* only on a thread that is inside run_pending, running a job.             *)

MaxThreads == 2
MaxRuns == 3

JobNames == {"scrape_legislative_observatory", "other_job"}

\* what func(stop_event) does when called
JobOutcomes ==
    { [raised |-> FALSE, error |-> ""],
      [raised |-> TRUE, error |-> "scrape failed"] }

\* a variant of job_wrapper without the try/except of lines 35-40
job_wrapper_NoExcept(name, ended) == [raised |-> ended.raised, logged |-> "info"]

\* job_wrapper (lines 33-40): whatever func raises is logged, not raised
job_wrapper(name, ended) ==
    [raised |-> FALSE, logged |-> IF ended.raised THEN "error" ELSE "info"]

LoopThread(pos, todo) == [pos |-> pos, todo |-> todo]

Alive(t) == loop_threads[t].pos # "dead"

SchedulerInit ==
    /\ sched_running = FALSE
    /\ sched_thread = 0
    /\ loop_threads = <<>>
    /\ sched_jobs = {}
    /\ executed = <<>>
    /\ caller_pc = "idle"
    /\ OutsideIdle_scheduler

\* register (lines 23-42); each name is registered once
register ==
    /\ caller_pc = "idle"
    /\ \E name \in JobNames \ sched_jobs : sched_jobs' = sched_jobs \cup {name}
    /\ UNCHANGED <<outside_scheduler, sched_running, sched_thread, loop_threads,
                   executed, caller_pc>>

\* start (lines 44-61)
start ==
    /\ caller_pc = "idle"
    /\ IF sched_running
       THEN UNCHANGED <<sched_running, sched_thread, loop_threads>>
       ELSE /\ Len(loop_threads) < MaxThreads
            /\ sched_running' = TRUE
            /\ loop_threads' = Append(loop_threads, LoopThread("test", {}))
            /\ sched_thread' = Len(loop_threads) + 1
    /\ UNCHANGED <<outside_scheduler, sched_jobs, executed, caller_pc>>

\* stop, lines 65-67: the flag is cleared, then the thread (if any) is joined
stop ==
    /\ caller_pc = "idle"
    /\ sched_running' = FALSE
    /\ caller_pc' = IF sched_thread # 0 THEN "join" ELSE "idle"
    /\ UNCHANGED <<outside_scheduler, sched_thread, loop_threads, sched_jobs, executed>>

\* line 68: the joined thread has ended
join_returns ==
    /\ caller_pc = "join"
    /\ ~Alive(sched_thread)
    /\ caller_pc' = "idle"
    /\ UNCHANGED <<outside_scheduler, sched_running, sched_thread, loop_threads,
                   sched_jobs, executed>>

\* line 68: five seconds have passed and the thread is still running a job
join_times_out ==
    /\ caller_pc = "join"
    /\ loop_threads[sched_thread].pos = "run_pending"
    /\ loop_threads[sched_thread].todo # {}
    /\ caller_pc' = "idle"
    /\ UNCHANGED <<outside_scheduler, sched_running, sched_thread, loop_threads,
                   sched_jobs, executed>>

\* line 54: `while self.running`; run_pending then finds the due jobs
loop_test(t) ==
    /\ loop_threads[t].pos = "test"
    /\ IF sched_running
       THEN \E due \in SUBSET sched_jobs :
                loop_threads' = [loop_threads EXCEPT ![t] = LoopThread("run_pending", due)]
       ELSE loop_threads' = [loop_threads EXCEPT ![t] = LoopThread("dead", {})]
    /\ UNCHANGED <<outside_scheduler, sched_running, sched_thread, sched_jobs,
                   executed, caller_pc>>

\* line 55: run_pending calls the wrapper of a due job; what the wrapper
\* raises leaves run_pending and run_schedule and ends the thread
run_job(t) ==
    /\ loop_threads[t].pos = "run_pending"
    /\ Len(executed) < MaxRuns
    /\ \E name \in loop_threads[t].todo, ended \in JobOutcomes :
           /\ executed' = Append(executed,
                  [job |-> name, thread |-> t, failed |-> ended.raised])
           /\ loop_threads' =
                  [loop_threads EXCEPT ![t] =
                      IF job_wrapper(name, ended).raised
                      THEN LoopThread("dead", {})
                      ELSE LoopThread("run_pending", @.todo \ {name})]
    /\ UNCHANGED <<outside_scheduler, sched_running, sched_thread, sched_jobs, caller_pc>>

\* line 55 returns, line 56 begins
run_pending_returns(t) ==
    /\ loop_threads[t].pos = "run_pending"
    /\ loop_threads[t].todo = {}
    /\ loop_threads' = [loop_threads EXCEPT ![t] = LoopThread("sleep", {})]
    /\ UNCHANGED <<outside_scheduler, sched_running, sched_thread, sched_jobs,
                   executed, caller_pc>>

\* line 56: time.sleep(1) returns
wake(t) ==
    /\ loop_threads[t].pos = "sleep"
    /\ loop_threads' = [loop_threads EXCEPT ![t] = LoopThread("test", {})]
    /\ UNCHANGED <<outside_scheduler, sched_running, sched_thread, sched_jobs,
                   executed, caller_pc>>

SchedulerNext ==
    \/ register
    \/ start
    \/ stop
    \/ join_returns
    \/ join_times_out
    \/ \E t \in 1..Len(loop_threads) : loop_test(t)
    \/ \E t \in 1..Len(loop_threads) : run_job(t)
    \/ \E t \in 1..Len(loop_threads) : run_pending_returns(t)
    \/ \E t \in 1..Len(loop_threads) : wake(t)

SpecScheduler == SchedulerInit /\ [][SchedulerNext]_vars

LoopThreadsAlive == {t \in 1..Len(loop_threads) : Alive(t)}

\* C22: whatever start() and stop() calls were made, at most one scheduler
\* loop thread is alive at any time.
C22_AtMostOneLoopThread == Cardinality(LoopThreadsAlive) <= 1

\* both loop threads have passed the while test and call run_pending
C22_TwoThreadsInRunPending ==
    \E t, u \in 1..Len(loop_threads) :
        /\ t # u
        /\ loop_threads[t].pos = "run_pending"
        /\ loop_threads[u].pos = "run_pending"

\* the step is a run of a job that raised
JobFailed == executed' # executed /\ executed'[Len(executed')].failed

\* C30: an exception raised by a job function does not leave job_wrapper: in
\* the step where a job fails the running flag and the registered jobs stay
\* as they are, the thread that ran the job stays inside run_pending with its
\* other due jobs still to run, and no other thread is touched.
C30_JobFailureStaysInWrapper ==
    [][JobFailed =>
          LET run == executed'[Len(executed')]
          IN  /\ sched_running' = sched_running
              /\ sched_jobs' = sched_jobs
              /\ loop_threads'[run.thread] =
                     LoopThread("run_pending", loop_threads[run.thread].todo \ {run.job})
              /\ \A t \in 1..Len(loop_threads) :
                     t # run.thread => loop_threads'[t] = loop_threads[t]]_vars

\* after a job failed, the same thread ran that job again and ran the other
\* registered job, and the scheduler is still running
C30_Witness ==
    /\ Len(executed) = 3
    /\ executed[1].failed
    /\ executed[2].job = executed[1].job
    /\ executed[2].thread = executed[1].thread
    /\ executed[3].job # executed[1].job
    /\ executed[3].thread = executed[1].thread
    /\ sched_running
    /\ Alive(executed[1].thread)

---------------------------------------------------------------------------
(* The voice-call token store (voice_calls.py).                            *)
(*                                                                         *)
(* The handlers are coroutines without an await, so each runs to its end   *)
(* before the next request is looked at. A handler reads the clock more    *)
(* than once (lines 33, 61, 115); a later read can show a later minute.    *)
(* secrets.token_urlsafe(32) draws 256 random bits: a token is taken to    *)
(* be one that was never returned before.                                  *)

MaxTime == 3
MaxRequests == 4

Tokens == {"tok-a", "tok-b"}

\* RegulatoryUpdatePayload (voice_call.py lines 20-32)
RegulatoryUpdatePayload(user, regulation, impact) ==
    [user_id |-> user, user_name |-> "Ada", company_name |-> "Acme",
     regulation_type |-> regulation, regulation_title |-> "Article 5 Amendment",
     effective_date |-> "2026-01-01", deadline |-> "2026-03-01",
     summary |-> "Change", action_required |-> "Review",
     impact_level |-> impact, reference_url |-> None]

Payloads ==
    { RegulatoryUpdatePayload("user-1", "GDPR", "high"),
      RegulatoryUpdatePayload("user-2", "DORA", "low") }

\* expires_in_minutes is any int: nothing rejects zero or a negative number
ExpiresInMinutes == {-1, 0, 1, 2}

\* VoiceCallToken (voice_call.py lines 35-41)
VoiceCallToken(token, payload, created_at, expires_at, is_used) ==
    [token |-> token, payload |-> payload, created_at |-> created_at,
     expires_at |-> expires_at, is_used |-> is_used]

\* a later datetime.utcnow() of the same handler
LaterReads(now) == {t \in {now, now + 1} : t <= MaxTime}

\* a variant that lets a token live one minute past expires_at
Expired_AfterGrace(data, now) == data.expires_at + 1 < now

\* `data.expires_at < now` (lines 36 and 115)
Expired(data, now) == data.expires_at < now

Without(store, removed) == [t \in DOMAIN store \ removed |-> store[t]]

\* a variant of the sweep that also removes a token at its deadline
cleanup_expired_tokens_AtDeadline(store, now) ==
    Without(store, {t \in DOMAIN store : store[t].expires_at <= now})

\* cleanup_expired_tokens (lines 31-39)
cleanup_expired_tokens(store, now) ==
    Without(store, {t \in DOMAIN store : Expired(store[t], now)})

\* GenerateVoiceCallLinkResponse, GetVoiceCallPayloadResponse and the DELETE
\* answers, as one record
VoiceResponse(op, token, code, success, payload, text) ==
    [op |-> op, token |-> token, code |-> code, success |-> success,
     payload |-> payload, text |-> text]

VoiceInit ==
    /\ voice_call_tokens = EmptyDict
    /\ clock = 0
    /\ issued = {}
    /\ invalidated = {}
    /\ served = 0
    /\ retrieved = <<>>
    /\ vc_response = [op |-> "none"]
    /\ OutsideIdle_voice

\* time passes between requests
Tick ==
    /\ clock < MaxTime
    /\ clock' = clock + 1
    /\ UNCHANGED <<outside_voice, voice_call_tokens, issued, invalidated, served,
                   retrieved, vc_response>>

\* POST /voice-calls/generate-link (lines 43-83)
generate_voice_call_link ==
    /\ served < MaxRequests
    /\ \E token \in Tokens \ issued, payload \in Payloads,
          minutes \in ExpiresInMinutes, created_at \in LaterReads(clock) :
           LET swept == cleanup_expired_tokens(voice_call_tokens, clock)
               expires_at == created_at + minutes
           IN  /\ voice_call_tokens' =
                      Put(swept, token,
                          VoiceCallToken(token, payload, created_at, expires_at, FALSE))
               /\ issued' = issued \cup {token}
               /\ clock' = created_at
               /\ vc_response' =
                      VoiceResponse("generate", token, 200, TRUE, None,
                                    "/voice-call?token=" \o token)
    /\ served' = served + 1
    /\ UNCHANGED <<outside_voice, invalidated, retrieved>>

\* a variant of lines 149-151 that answers without deleting
InvalidateStore_KeepToken(store, token) == store

\* line 150: del voice_call_tokens[token]
InvalidateStore(store, token) == Without(store, {token})

\* GET /voice-calls/payload/{token} (lines 91-130)
get_voice_call_payload ==
    /\ served < MaxRequests
    /\ \E token \in Tokens, now \in LaterReads(clock) :
           LET swept == cleanup_expired_tokens(voice_call_tokens, clock)
           IN  /\ clock' = now
               /\ IF token \notin DOMAIN swept
                  THEN /\ voice_call_tokens' = swept
                       /\ retrieved' = retrieved
                       /\ vc_response' =
                              VoiceResponse("get", token, 200, FALSE, None,
                                            "Invalid or expired token")
                  ELSE IF Expired(swept[token], now)
                  THEN /\ voice_call_tokens' = Without(swept, {token})
                       /\ retrieved' = retrieved
                       /\ vc_response' =
                              VoiceResponse("get", token, 200, FALSE, None,
                                            "Token has expired")
                  ELSE /\ voice_call_tokens' = swept
                       /\ retrieved' = Append(retrieved, token)
                       /\ vc_response' =
                              VoiceResponse("get", token, 200, TRUE,
                                            Some(swept[token].payload), "")
    /\ served' = served + 1
    /\ UNCHANGED <<outside_voice, issued, invalidated>>

\* DELETE /voice-calls/token/{token} (lines 138-159)
invalidate_voice_call_token ==
    /\ served < MaxRequests
    /\ \E token \in Tokens :
           IF token \in DOMAIN voice_call_tokens
           THEN /\ voice_call_tokens' = InvalidateStore(voice_call_tokens, token)
                /\ invalidated' = invalidated \cup {token}
                /\ vc_response' =
                       VoiceResponse("invalidate", token, 200, TRUE, None,
                                     "Token invalidated")
           ELSE /\ vc_response' =
                       VoiceResponse("invalidate", token, 404, FALSE, None,
                                     "Token not found")
                /\ UNCHANGED <<voice_call_tokens, invalidated>>
    /\ served' = served + 1
    /\ UNCHANGED <<outside_voice, clock, issued, retrieved>>

VoiceNext ==
    \/ Tick
    \/ generate_voice_call_link
    \/ get_voice_call_payload
    \/ invalidate_voice_call_token

SpecVoice == VoiceInit /\ [][VoiceNext]_vars

\* the step answers a request of this kind
Answers(op) == served' = served + 1 /\ vc_response'.op = op

\* C23: a get step answers success only for a token that was in the store
\* with expires_at not earlier than the time the handler read, and with that
\* token's payload; a get step for a stored token that has expired by then
\* answers success=False and the token is gone from the store afterwards.
C23_OnlyStoredUnexpiredServed ==
    [][Answers("get") =>
          LET token == vc_response'.token
          IN  /\ vc_response'.success =>
                     /\ token \in DOMAIN voice_call_tokens
                     /\ voice_call_tokens[token].expires_at >= clock'
                     /\ vc_response'.payload = Some(voice_call_tokens[token].payload)
              /\ (/\ token \in DOMAIN voice_call_tokens
                  /\ voice_call_tokens[token].expires_at < clock') =>
                     /\ ~vc_response'.success
                     /\ vc_response'.payload = None
                     /\ token \notin DOMAIN voice_call_tokens']_vars

\* a get found its token expired only at the second look at the clock
\* (line 115) and removed it
C23_Witness ==
    /\ vc_response.op = "get"
    /\ vc_response.text = "Token has expired"
    /\ vc_response.token \in issued \ invalidated
    /\ vc_response.token \notin DOMAIN voice_call_tokens

\* C24: once a DELETE has removed a token, every later get for it answers
\* success=False and every later DELETE for it answers 404; a DELETE for a
\* token that is not in the store answers 404 and leaves the store as it is.
C24_InvalidatedStaysInvalid ==
    [][/\ (Answers("get") /\ vc_response'.token \in invalidated) =>
              ~vc_response'.success /\ vc_response'.payload = None
       /\ (Answers("invalidate") /\ vc_response'.token \in invalidated) =>
              vc_response'.code = 404
       /\ (Answers("invalidate") /\ vc_response'.token \notin DOMAIN voice_call_tokens) =>
              /\ vc_response'.code = 404
              /\ voice_call_tokens' = voice_call_tokens]_vars

\* a token was served, then invalidated before it expired, and the get that
\* followed was refused
C24_Witness ==
    /\ vc_response.op = "get"
    /\ ~vc_response.success
    /\ vc_response.token \in invalidated
    /\ retrieved = <<vc_response.token>>
    /\ clock = 0

\* a token that no read of the clock in this step finds expired
Unexpired(t) == voice_call_tokens[t].expires_at >= clock'

\* C25: links are reusable and the sweep is exact: a generate or get step
\* (each begins with cleanup_expired_tokens) leaves every stored token that
\* has not expired in the store, unmodified and with is_used False; generate
\* adds nothing but its new token; and a get for a stored token that has not
\* expired answers success with the stored payload, however often it is asked.
C25_UnexpiredTokensUntouched ==
    [][(Answers("generate") \/ Answers("get")) =>
          /\ \A t \in DOMAIN voice_call_tokens :
                 Unexpired(t) =>
                     /\ t \in DOMAIN voice_call_tokens'
                     /\ voice_call_tokens'[t] = voice_call_tokens[t]
                     /\ ~voice_call_tokens'[t].is_used
          /\ DOMAIN voice_call_tokens' \subseteq
                 DOMAIN voice_call_tokens \cup {vc_response'.token}
          /\ (/\ Answers("get")
              /\ vc_response'.token \in DOMAIN voice_call_tokens
              /\ Unexpired(vc_response'.token)) =>
                 /\ vc_response'.success
                 /\ vc_response'.payload =
                        Some(voice_call_tokens[vc_response'.token].payload)]_vars

\* one token was served three times, the last time at its deadline
C25_Witness ==
    /\ Len(retrieved) = 3
    /\ retrieved[1] = retrieved[2]
    /\ retrieved[2] = retrieved[3]
    /\ retrieved[1] \in DOMAIN voice_call_tokens
    /\ voice_call_tokens[retrieved[1]].expires_at = clock
    /\ clock > 0

---------------------------------------------------------------------------
(* The company profile store: save_company_profiles, get_company_profile,  *)
(* list_companies and delete_company_profile (companies.py).               *)
(*                                                                         *)
(* The database is a map from table names to tables, a table a map from    *)
(* company_name (the conflict key of the upsert) to a row. The schema is   *)
(* not part of the repository: the database has a table named              *)
(* company_profile, one named company_profiles, or both. A request on a    *)
(* table that does not exist makes the client raise.                       *)

MaxProfiles == 2
MaxStoreRequests == 3

SaveTable == "company_profile"
ReadTable == "company_profiles"

Schemas == {{SaveTable}, {ReadTable}, {SaveTable, ReadTable}}

\* the profiles a user sends back after review
ReviewedProfiles ==
    { [company_name |-> "Acme", description |-> Some("Acme builds solar parks."),
       industry |-> Some("Energy"), regulatory_topics |-> Some(<<"ESG">>),
       website_url |-> Some("https://acme.example")],
      [company_name |-> "Acme", description |-> NoneStr,
       industry |-> Some("Payments"), regulatory_topics |-> None,
       website_url |-> NoneStr],
      [company_name |-> "Globex", description |-> NoneStr,
       industry |-> Some("Payments"), regulatory_topics |-> Some(<<"BaFin", "AMLR">>),
       website_url |-> NoneStr] }

ProfileLists == UNION {[1..n -> ReviewedProfiles] : n \in 1..MaxProfiles}

\* what the client raises on a table the database does not have
NoSuchTable == "42P01"

\* profile_data of save_company_profiles (lines 128-136)
SaveData(p, now) ==
    [company_name |-> p.company_name,
     website_url |-> p.website_url,
     description |-> p.description,
     industry |-> p.industry,
     regulatory_topics |-> IF p.regulatory_topics.some /\ p.regulatory_topics.val # <<>>
                           THEN p.regulatory_topics.val ELSE <<>>,
     scrape_status |-> "success",
     last_scraped_at |-> now]

\* supabase.table(name).upsert(row, on_conflict="company_name").execute()
upsert(tables, name, row) ==
    [tables EXCEPT ![name] =
        Put(@, row.company_name,
            IF row.company_name \in DOMAIN @ THEN Update(@[row.company_name], row) ELSE row)]

\* a variant of the read endpoints that reads the table save writes
TableRead_SaveTable == SaveTable

\* the table get, list and delete address (lines 217, 253 and 286)
TableRead == ReadTable

\* the loop of save_company_profiles (lines 125-152)
RECURSIVE SaveAll(_, _, _)
SaveAll(todo, now, acc) ==
    IF todo = <<>>
    THEN acc
    ELSE LET p == Head(todo)
         IN  IF SaveTable \in DOMAIN acc.tables
             THEN SaveAll(Tail(todo), now,
                      [tables |-> upsert(acc.tables, SaveTable, SaveData(p, now)),
                       saved_profiles |-> Append(acc.saved_profiles, p),
                       errors |-> acc.errors])
             ELSE SaveAll(Tail(todo), now,
                      [tables |-> acc.tables,
                       saved_profiles |-> acc.saved_profiles,
                       errors |-> Append(acc.errors,
                           [url |-> IF p.website_url.some /\ p.website_url.val # ""
                                    THEN p.website_url.val ELSE p.company_name,
                            error |-> NoSuchTable])])

StoreResponse(op, name, code, success, data, errs) ==
    [op |-> op, name |-> name, code |-> code, success |-> success,
     data |-> data, errors |-> errs]

Unavailable(op, name) == StoreResponse(op, name, 503, FALSE, <<>>, <<>>)
ServerError(op, name) == StoreResponse(op, name, 500, FALSE, <<>>, <<NoSuchTable>>)
NotFound(op, name) == StoreResponse(op, name, 404, FALSE, <<>>, <<>>)

StoreInit ==
    /\ supabase \in BOOLEAN
    /\ \E schema \in Schemas : db_tables = [t \in schema |-> EmptyDict]
    /\ saved = EmptyDict
    /\ store_requests = 0
    /\ store_response = [op |-> "none"]
    /\ OutsideIdle_store

\* POST /companies/profiles/save (lines 101-162)
save_company_profiles ==
    /\ store_requests < MaxStoreRequests
    /\ store_requests' = store_requests + 1
    /\ IF ~supabase
       THEN /\ store_response' = Unavailable("save", "")
            /\ UNCHANGED <<db_tables, saved>>
       ELSE \E list \in ProfileLists, now \in Timestamps :
                LET r == SaveAll(list, now,
                             [tables |-> db_tables, saved_profiles |-> <<>>, errors |-> <<>>])
                    names == {r.saved_profiles[i].company_name :
                                 i \in 1..Len(r.saved_profiles)}
                IN  /\ db_tables' = r.tables
                    /\ saved' = [n \in DOMAIN saved \cup names |->
                                    IF n \in names THEN r.tables[SaveTable][n] ELSE saved[n]]
                    /\ store_response' =
                           StoreResponse("save", "", 200, TRUE, r.saved_profiles, r.errors)
    /\ UNCHANGED <<outside_store, supabase>>

\* GET /companies/{company_name} (lines 203-229)
get_company_profile ==
    /\ store_requests < MaxStoreRequests
    /\ store_requests' = store_requests + 1
    /\ \E name \in {"Acme", "Globex"} :
           store_response' =
               IF ~supabase THEN Unavailable("get", name)
               ELSE IF TableRead \notin DOMAIN db_tables THEN ServerError("get", name)
               ELSE IF name \notin DOMAIN db_tables[TableRead] THEN NotFound("get", name)
               ELSE StoreResponse("get", name, 200, TRUE, <<db_tables[TableRead][name]>>, <<>>)
    /\ UNCHANGED <<outside_store, supabase, db_tables, saved>>

\* GET /companies/ with the default limit and offset (lines 233-268); name
\* is the industry filter, "" for none
list_companies ==
    /\ store_requests < MaxStoreRequests
    /\ store_requests' = store_requests + 1
    /\ \E industry \in {NoneStr, Some("Payments")} :
           store_response' =
               IF ~supabase THEN Unavailable("list", industry.val)
               ELSE IF TableRead \notin DOMAIN db_tables THEN ServerError("list", industry.val)
               ELSE LET table == db_tables[TableRead]
                        rows == {table[n] : n \in DOMAIN table}
                    IN  StoreResponse("list", industry.val, 200, TRUE,
                            IF industry.some /\ industry.val # ""
                            THEN {row \in rows : row.industry = industry}
                            ELSE rows,
                            <<>>)
    /\ UNCHANGED <<outside_store, supabase, db_tables, saved>>

\* DELETE /companies/{company_name} (lines 272-297)
delete_company_profile ==
    /\ store_requests < MaxStoreRequests
    /\ store_requests' = store_requests + 1
    /\ \E name \in {"Acme", "Globex"} :
           IF ~supabase
           THEN /\ store_response' = Unavailable("delete", name)
                /\ UNCHANGED <<db_tables, saved>>
           ELSE IF TableRead \notin DOMAIN db_tables
           THEN /\ store_response' = ServerError("delete", name)
                /\ UNCHANGED <<db_tables, saved>>
           ELSE IF name \notin DOMAIN db_tables[TableRead]
           THEN /\ store_response' = NotFound("delete", name)
                /\ UNCHANGED <<db_tables, saved>>
           ELSE /\ store_response' = StoreResponse("delete", name, 200, TRUE, <<>>, <<>>)
                /\ db_tables' = [db_tables EXCEPT ![TableRead] = Without(@, {name})]
                /\ saved' = Without(saved, {name})
    /\ UNCHANGED <<outside_store, supabase>>

StoreNext ==
    \/ save_company_profiles
    \/ get_company_profile
    \/ list_companies
    \/ delete_company_profile

SpecStore == StoreInit /\ [][StoreNext]_vars

StoreAnswers(op) == store_requests' = store_requests + 1 /\ store_response'.op = op

\* C26: a profile that save_company_profiles reported as saved can be read
\* back under its company_name: a later get answers 200 with the saved row
\* (not 404), an unfiltered list contains it, and a delete answers 200.
C26_SavedProfileReadable ==
    [][/\ (StoreAnswers("get") /\ store_response'.name \in DOMAIN saved) =>
              /\ store_response'.code = 200
              /\ store_response'.data = <<saved[store_response'.name]>>
       /\ (StoreAnswers("delete") /\ store_response'.name \in DOMAIN saved) =>
              store_response'.code = 200
       /\ (StoreAnswers("list") /\ store_response'.name = "" /\ saved # EmptyDict) =>
              /\ store_response'.code = 200
              /\ \A n \in DOMAIN saved :
                     \E row \in store_response'.data : row.company_name = n]_vars

---------------------------------------------------------------------------
(* The notification workflow (langgraph/agent.py):                         *)
(* __start__ -> fetch -> classify -> notify or END, notify -> END.         *)
(*                                                                         *)
(* A node that raises ends the run: app.invoke re-raises the exception.    *)
(* json.loads is modelled on the JSON texts an LLM reply can hold here: an *)
(* array of strings and numbers without commas inside an element, a        *)
(* string, or a number; anything else is a JSONDecodeError. A parsed value *)
(* is [type |-> "list" | "str" | "num", ...].                              *)

MaxEntries == 2

Entry(id, title) ==
    [id |-> id, title |-> title, link |-> "https://example.com/" \o id,
     committee |-> "Committee", subjects |-> <<"regulation">>]

LegislativeFiles ==
    { Entry("entry-001", "EU Artificial Intelligence Act"),
      Entry("entry-002", "GDPR Enforcement Report 2024"),
      Entry("entry-003", "Local Municipality Parking Fee Adjustment") }

EntryLists == UNION {[1..n -> LegislativeFiles] : n \in 0..MaxEntries}

\* the markdown fence of three backticks; a string of this module cannot
\* hold a backtick, an apostrophe stands for it
Fence == "'''"

\* response.content of llm.invoke(prompt)
LLMReplies ==
    { "[\"major\", \"minor\"]",
      "[\"minor\", \"minor\"]",
      Fence \o "json\n[\"Medium\", \"minor\"]\n" \o Fence,
      "[\"critical\", \"MAJOR\"]",
      "[\"major\"]",
      "[\"minor\", \"major\", \"medium\"]",
      "[]",
      "The first document is major.",
      "\"major\"",
      "[1, 2]",
      "3" }

JStr(s) == [type |-> "str", val |-> s, items |-> <<>>]
JNum(s) == [type |-> "num", val |-> s, items |-> <<>>]
JList(items) == [type |-> "list", val |-> "", items |-> items]

Parsed(value) == [ok |-> TRUE, value |-> value]
JSONDecodeError == [ok |-> FALSE, value |-> JStr("")]

Quote == "\""

\* a JSON string or number
ParseScalar(text) ==
    LET t == Strip(text)
    IN  IF /\ Len(t) >= 2
           /\ SubSeq(t, 1, 1) = Quote
           /\ SubSeq(t, Len(t), Len(t)) = Quote
           /\ ~Contains(SubSeq(t, 2, Len(t) - 1), Quote)
        THEN Parsed(JStr(SubSeq(t, 2, Len(t) - 1)))
        ELSE IF t # "" /\ \A i \in 1..Len(t) : IsDigit(SubSeq(t, i, i))
        THEN Parsed(JNum(t))
        ELSE JSONDecodeError

\* json.loads(content)
json_loads(content) ==
    LET t == Strip(content)
    IN  IF Len(t) >= 2 /\ SubSeq(t, 1, 1) = "[" /\ SubSeq(t, Len(t), Len(t)) = "]"
        THEN LET inner == Strip(SubSeq(t, 2, Len(t) - 1))
                 parts == IF inner = "" THEN <<>> ELSE Split(inner, ",")
                 items == [i \in 1..Len(parts) |-> ParseScalar(parts[i])]
             IN  IF \A i \in 1..Len(items) : items[i].ok
                 THEN Parsed(JList([i \in 1..Len(items) |-> items[i].value]))
                 ELSE JSONDecodeError
        ELSE ParseScalar(t)

\* lines 69-77: the severities the loop will zip with the entries
Severities(content, entries) ==
    LET cleaned == Strip(Replace(Replace(Strip(content), Fence \o "json", ""), Fence, ""))
        loaded == json_loads(cleaned)
    IN  IF loaded.ok
        THEN loaded.value
        ELSE JList([i \in 1..Len(entries) |-> JStr("minor")])

\* what iterating over a parsed value yields; a number cannot be iterated
Iterable(value) == value.type # "num"

Iterate(value) ==
    IF value.type = "list"
    THEN value.items
    ELSE [i \in 1..Len(value.val) |-> JStr(SubSeq(value.val, i, i))]

SeverityLevels == {"minor", "medium", "major"}

\* lines 81-90 for one pair of the zip
Classified(entry, severity) ==
    [id |-> entry.id, title |-> entry.title, link |-> entry.link,
     severity |-> IF Lower(severity.val) \in SeverityLevels
                  THEN Lower(severity.val) ELSE "minor"]

\* the loop of lines 80-92: zip stops at the shorter of the two
ClassifyPairs(entries, items) ==
    [i \in 1..Min(Len(entries), Len(items)) |-> Classified(entries[i], items[i])]

WorkflowReturn(value) == [raised |-> FALSE, cls |-> "", value |-> value]
WorkflowRaise(cls) == [raised |-> TRUE, cls |-> cls, value |-> <<>>]

\* classify_entries after llm.invoke returned content (lines 67-94)
classify_entries_on(entries, content) ==
    LET severities == Severities(content, entries)
    IN  IF ~Iterable(severities)
        THEN WorkflowRaise("TypeError")
        ELSE LET items == Iterate(severities)
                 paired == Min(Len(entries), Len(items))
             IN  IF \E i \in 1..paired : items[i].type # "str"
                 THEN WorkflowRaise("AttributeError")
                 ELSE WorkflowReturn(ClassifyPairs(entries, items))

\* route_severity (lines 96-99)
route_severity(classified) ==
    IF \E i \in 1..Len(classified) : classified[i].severity \in {"medium", "major"}
    THEN "notify"
    ELSE "END"

NoAgentError == [node |-> "", cls |-> ""]

AgentInit ==
    /\ agent_pc = "fetch"
    /\ wf_entries \in EntryLists
    /\ wf_classified = <<>>
    /\ wf_notifications = <<>>
    /\ wf_path = <<>>
    /\ llm_reply = NoneStr
    /\ posts = <<>>
    /\ agent_error = NoAgentError
    /\ OutsideIdle_agent

\* fetch_entries (lines 21-41); the query can raise
fetch_entries ==
    /\ agent_pc = "fetch"
    /\ wf_path' = Append(wf_path, "fetch")
    /\ IF wf_entries # <<>>
       THEN /\ agent_pc' = "classify"
            /\ UNCHANGED <<wf_entries, agent_error>>
       ELSE \/ /\ \E data \in EntryLists : wf_entries' = data
               /\ agent_pc' = "classify"
               /\ UNCHANGED agent_error
            \/ /\ agent_pc' = "raised"
               /\ agent_error' = [node |-> "fetch", cls |-> "APIError"]
               /\ UNCHANGED wf_entries
    /\ UNCHANGED <<outside_agent, wf_classified, wf_notifications, llm_reply, posts>>

\* classify_entries (lines 43-94) and the conditional edge of line 131
classify_entries ==
    /\ agent_pc = "classify"
    /\ wf_path' = Append(wf_path, "classify")
    /\ IF wf_entries = <<>>
       THEN /\ wf_classified' = <<>>
            /\ agent_pc' = route_severity(<<>>)
            /\ UNCHANGED <<llm_reply, agent_error>>
       ELSE \/ /\ agent_pc' = "raised"
               /\ agent_error' = [node |-> "classify", cls |-> "APIConnectionError"]
               /\ UNCHANGED <<wf_classified, llm_reply>>
            \/ \E content \in LLMReplies :
                   LET r == classify_entries_on(wf_entries, content)
                   IN  /\ llm_reply' = Some(content)
                       /\ IF r.raised
                          THEN /\ agent_pc' = "raised"
                               /\ agent_error' = [node |-> "classify", cls |-> r.cls]
                               /\ UNCHANGED wf_classified
                          ELSE /\ wf_classified' = r.value
                               /\ agent_pc' = route_severity(r.value)
                               /\ UNCHANGED agent_error
    /\ UNCHANGED <<outside_agent, wf_entries, wf_notifications, posts>>

\* the indexes of the items send_notifications looks at before its break
Majors == {i \in 1..Len(wf_classified) : wf_classified[i].severity = "major"}

\* send_notifications (lines 101-121); requests.post can raise
send_notifications ==
    /\ agent_pc = "notify"
    /\ wf_path' = Append(wf_path, "notify")
    /\ IF Majors = {}
       THEN /\ wf_notifications' = <<>>
            /\ agent_pc' = "END"
            /\ UNCHANGED <<posts, agent_error>>
       ELSE LET item == wf_classified[CHOOSE i \in Majors : \A j \in Majors : i <= j]
                payload == [severity |-> item.severity, meeting_notes |-> item.title]
            IN  \/ /\ posts' = Append(posts, [payload |-> payload, delivered |-> TRUE])
                   /\ wf_notifications' = <<[type |-> "urgent", item |-> item]>>
                   /\ agent_pc' = "END"
                   /\ UNCHANGED agent_error
                \/ /\ posts' = Append(posts, [payload |-> payload, delivered |-> FALSE])
                   /\ agent_pc' = "raised"
                   /\ agent_error' = [node |-> "notify", cls |-> "ConnectionError"]
                   /\ UNCHANGED wf_notifications
    /\ UNCHANGED <<outside_agent, wf_entries, wf_classified, llm_reply>>

AgentNext ==
    \/ fetch_entries
    \/ classify_entries
    \/ send_notifications

AgentPositions == {"fetch", "classify", "notify", "END", "raised"}

\* the run moves on: a node that is due runs
AgentAdvance ==
    /\ agent_pc \in {"fetch", "classify", "notify"}
    /\ \E position \in AgentPositions \ {agent_pc} : agent_pc' = position

SpecAgent == AgentInit /\ [][AgentNext]_vars /\ WF_agent_pc(AgentAdvance)

\* C27: whatever the LLM answered, classify_entries returns one record per
\* entry, in the order of the entries, each with a severity of minor, medium
\* or major: it does not raise, and the list it returns is as long as the
\* entry list.
C27_OneRecordPerEntry ==
    llm_reply.some =>
        /\ ~(agent_pc = "raised" /\ agent_error.node = "classify")
        /\ Len(wf_classified) = Len(wf_entries)
        /\ \A i \in 1..Len(wf_classified) :
               /\ wf_classified[i].id = wf_entries[i].id
               /\ wf_classified[i].severity \in SeverityLevels

SomeSeverity(levels) ==
    \E i \in 1..Len(wf_classified) : wf_classified[i].severity \in levels

Delivered == {i \in 1..Len(posts) : posts[i].delivered}

NotifyEntered == \E i \in 1..Len(wf_path) : wf_path[i] = "notify"

\* what C28 says of a run at any of its states
C28_Safety ==
    /\ NotifyEntered => SomeSeverity({"medium", "major"})
    /\ (agent_pc = "END" /\ SomeSeverity({"medium", "major"})) => NotifyEntered
    /\ Len(posts) <= 1
    /\ agent_pc \in {"END", "raised"} =>
           /\ Cardinality(Delivered) = 1 <=> SomeSeverity({"major"})
           /\ \A i \in 1..Len(posts) :
                  posts[i].payload.meeting_notes =
                      wf_classified[CHOOSE m \in Majors : \A j \in Majors : m <= j].title

\* C28: in every run the notify node is entered exactly when some classified
\* entry is medium or major, at most one webhook notification is sent, exactly
\* one (for the first major entry) when some entry is major, and the run
\* reaches END.
C28_NotifiesOnceAndReachesEnd == []C28_Safety /\ <>(agent_pc = "END")

---------------------------------------------------------------------------
(* The question-answering endpoint: query_rag (rag.py) over RAGService     *)
(* (rag_service.py).                                                       *)
(*                                                                         *)
(* A retrieved document is a dict whose values are Some(text) or NoneStr   *)
(* (a null column); a similarity is written as its decimal text.           *)

MinQueryLength == 3

Queries == {"", "ai", "  ai  ", " a ", "GDPR fines", "AI Act"}

Documents ==
    { [source_table |-> Some("legislative_files"),
       content_text |-> Some("Article 5 is amended."), similarity |-> Some("0.87")],
      [content_text |-> Some("Fines under GDPR.")],
      [source_table |-> Some("meetings"), content_text |-> NoneStr,
       similarity |-> Some("0.5")],
      [source_table |-> Some("meetings"), content_text |-> Some("Minutes."),
       similarity |-> NoneStr] }

\* response.data of the match_documents_v2 call
SearchResults == {<<>>} \cup {<<d>> : d \in Documents} \cup {<<d, e>> : d, e \in Documents}

\* response.choices[0].message.content
Completions == {NoneStr, Some(""), Some("Article 5 now applies. **Resources:** - Act")}

\* a variant of the length test that does not trim the query
QueryTooShort_Untrimmed(query) == Len(query) < MinQueryLength

\* `len(request.query.strip()) < 3` (rag.py line 50)
QueryTooShort(query) == Len(Strip(query)) < MinQueryLength

\* str() of a value inside an f-string
Str(v) == IF v.some THEN v.val ELSE "None"

\* lines 79-84 of rag_service.py
ContextOf(docs) ==
    Join("\n\n---\n\n",
         [i \in 1..Len(docs) |->
             "Source: " \o Str(Get(docs[i], "source_table", Some("Unknown")))
                 \o "\n" \o Str(Get(docs[i], "content_text", Some("")))])

\* SourceDocument(...) of rag.py lines 96-100 raises on a null content_text
\* (validation) or a null similarity (float(None))
Formattable(doc) ==
    /\ Get(doc, "content_text", Some("")).some
    /\ Get(doc, "similarity", Some("0")).some

SourceDocument(doc) ==
    [content |-> Get(doc, "content_text", Some("")).val,
     source_table |-> Str(Get(doc, "source_table", Some("unknown"))),
     similarity |-> Get(doc, "similarity", Some("0")).val]

RAGResponse(success, query, llm_answer, source_documents, error) ==
    [code |-> 200, success |-> success, query |-> query, llm_answer |-> llm_answer,
     source_documents |-> source_documents, error |-> error]

TooShort(query) ==
    RAGResponse(FALSE, query,
        "Please enter a more specific question (at least 3 characters) about EU regulations.",
        <<>>, "Query too short")
NoContext(query) ==
    RAGResponse(FALSE, query, "No relevant documents found for your query.",
                <<>>, "No context retrieved")
GenerationFailed(query) ==
    RAGResponse(FALSE, query, "Failed to generate answer from context.",
                <<>>, "LLM generation failed")
ErrorResponse(query, e) ==
    RAGResponse(FALSE, query, "An error occurred while processing your query.", <<>>, e)

RagInit ==
    /\ rag_pc = "received"
    /\ rag_query \in Queries
    /\ rag_calls = <<>>
    /\ rag_errors = <<>>
    /\ rag_context = ""
    /\ rag_docs = <<>>
    /\ rag_answer = NoneStr
    /\ rag_response = [code |-> 0]
    /\ OutsideIdle_rag

\* rag.py lines 50-57
ValidateQuery ==
    /\ rag_pc = "received"
    /\ IF QueryTooShort(rag_query)
       THEN rag_pc' = "done" /\ rag_response' = TooShort(rag_query)
       ELSE rag_pc' = "init" /\ UNCHANGED rag_response
    /\ UNCHANGED <<outside_rag, rag_query, rag_calls, rag_errors, rag_context, rag_docs,
                   rag_answer>>

\* rag.py line 62: RAGService() raises when no API key is configured
InitService ==
    /\ rag_pc = "init"
    /\ \/ rag_pc' = "embed" /\ UNCHANGED <<rag_errors, rag_response>>
       \/ /\ rag_pc' = "done"
          /\ rag_errors' = Append(rag_errors, "init")
          /\ rag_response' = ErrorResponse(rag_query, "The api_key client option must be set")
    /\ UNCHANGED <<outside_rag, rag_query, rag_calls, rag_context, rag_docs, rag_answer>>

\* embed_query (rag_service.py 33-41) and lines 59-62, then rag.py 70-77
EmbedQuery ==
    /\ rag_pc = "embed"
    /\ rag_calls' = Append(rag_calls, "embed")
    /\ \/ rag_pc' = "search" /\ UNCHANGED <<rag_errors, rag_response>>
       \/ /\ rag_pc' = "done"
          /\ rag_errors' = Append(rag_errors, "embedding")
          /\ rag_response' = NoContext(rag_query)
    /\ UNCHANGED <<outside_rag, rag_query, rag_context, rag_docs, rag_answer>>

\* the similarity search (rag_service.py 65-91), then rag.py 70-77
SearchDocuments ==
    /\ rag_pc = "search"
    /\ rag_calls' = Append(rag_calls, "search")
    /\ \/ \E data \in SearchResults :
              IF data = <<>>
              THEN /\ rag_pc' = "done"
                   /\ rag_response' = NoContext(rag_query)
                   /\ UNCHANGED <<rag_context, rag_docs, rag_errors>>
              ELSE /\ rag_context' = ContextOf(data)
                   /\ rag_docs' = data
                   /\ rag_pc' = IF ContextOf(data) = "" THEN "done" ELSE "generate"
                   /\ rag_response' =
                          IF ContextOf(data) = "" THEN NoContext(rag_query) ELSE rag_response
                   /\ UNCHANGED rag_errors
       \/ /\ rag_pc' = "done"
          /\ rag_errors' = Append(rag_errors, "retrieval")
          /\ rag_response' = NoContext(rag_query)
          /\ UNCHANGED <<rag_context, rag_docs>>
    /\ UNCHANGED <<outside_rag, rag_query, rag_answer>>

\* generate_answer (rag_service.py 104-135), then rag.py 85-92
GenerateAnswer ==
    /\ rag_pc = "generate"
    /\ rag_calls' = Append(rag_calls, "generate")
    /\ \/ \E content \in Completions :
              /\ rag_answer' = content
              /\ IF content.some /\ content.val # ""
                 THEN rag_pc' = "format" /\ UNCHANGED rag_response
                 ELSE rag_pc' = "done" /\ rag_response' = GenerationFailed(rag_query)
              /\ UNCHANGED rag_errors
       \/ /\ rag_answer' = Some("")
          /\ rag_pc' = "done"
          /\ rag_errors' = Append(rag_errors, "generation")
          /\ rag_response' = GenerationFailed(rag_query)
    /\ UNCHANGED <<outside_rag, rag_query, rag_context, rag_docs>>

\* rag.py lines 95-112, and the except clause of 114-122 for what they raise
FormatSources ==
    /\ rag_pc = "format"
    /\ rag_pc' = "done"
    /\ IF \A i \in 1..Len(rag_docs) : Formattable(rag_docs[i])
       THEN /\ rag_response' =
                   RAGResponse(TRUE, rag_query, rag_answer.val,
                       [i \in 1..Len(rag_docs) |-> SourceDocument(rag_docs[i])], "")
            /\ UNCHANGED rag_errors
       ELSE /\ rag_response' = ErrorResponse(rag_query, "invalid source document")
            /\ rag_errors' = Append(rag_errors, "format")
    /\ UNCHANGED <<outside_rag, rag_query, rag_calls, rag_context, rag_docs, rag_answer>>

RagNext ==
    \/ ValidateQuery
    \/ InitService
    \/ EmbedQuery
    \/ SearchDocuments
    \/ GenerateAnswer
    \/ FormatSources

SpecRag == RagInit /\ [][RagNext]_vars

Called(what) == \E i \in 1..Len(rag_calls) : rag_calls[i] = what

\* C29: query_rag answers every request with a RAGResponse, in a fixed order:
\* a query of fewer than 3 characters after trimming is refused without any
\* call to the embedding or search service; the chat model is called only
\* after the embedding and the search, with a non-empty context; success is
\* True only with a non-empty context and a non-empty answer; and whenever
\* something raised, success is False and source_documents is empty.
C29_StrictOrderNeverRaises ==
    /\ rag_pc \in {"received", "init", "embed", "search", "generate", "format", "done"}
    /\ rag_pc = "done" => rag_response.code = 200
    /\ Len(Strip(rag_query)) < 3 =>
           /\ rag_calls = <<>>
           /\ rag_pc = "done" => ~rag_response.success /\ rag_response.source_documents = <<>>
    /\ Called("generate") =>
           /\ rag_calls = <<"embed", "search", "generate">>
           /\ rag_context # ""
    /\ (rag_pc = "done" /\ rag_response.success) =>
           /\ rag_context # ""
           /\ rag_answer.some /\ rag_answer.val # ""
           /\ rag_response.llm_answer = rag_answer.val
    /\ (rag_pc = "done" /\ rag_errors # <<>>) =>
           /\ ~rag_response.success
           /\ rag_response.source_documents = <<>>

\* a query that is long only because of its blanks was refused before any
\* call was made
C29_Witness ==
    /\ rag_pc = "done"
    /\ Len(rag_query) >= 3
    /\ rag_response.error = "Query too short"
    /\ rag_calls = <<>>

\* a request whose answer was generated but whose sources could not be
\* formatted was answered with success False and no sources
C29_WitnessErrorAfterGeneration ==
    /\ rag_pc = "done"
    /\ rag_calls = <<"embed", "search", "generate">>
    /\ rag_errors = <<"format">>
    /\ ~rag_response.success

============================================================================
